---------------------------- MODULE Spec2Model ----------------------------
(***************************************************************************)
(* Model of the DigBiz3 AI engine (src/ai-engine/app.py): the matching     *)
(* engine (AdvancedMatchingEngine), the market intelligence cache          *)
(* (MarketIntelligenceEngine) and the deal predictor                       *)
(* (DealSuccessPredictor).                                                 *)
(*                                                                         *)
(* Representation.                                                         *)
(*  - A Python str is a sequence of one-character strings.                 *)
(*  - A JSON value is a record [tag, s, n]: Str(s), Num(n) or None.        *)
(*  - A dict is a function whose DOMAIN is the set of keys present.        *)
(*  - A float is the real number the expression denotes, in fixed point.  *)
(*    Sub-scores are in thousandths (0.8 is 800), weights in hundredths,   *)
(*    a match score in thousandths of a point (93.5 is 93500), a meeting   *)
(*    probability in ten-thousandths of a point (50.0 is 500000).  The     *)
(*    two quotients of the code (network ratio, Jaccard) are exact: what   *)
(*    depends on them is a fraction [n, d] of these units in lowest terms. *)
(*    The double the program holds lies within a few units in the last     *)
(*    place of that number; where the /match route compares it with a      *)
(*    threshold the model keeps on which side it lies.                     *)
(*    The features of a deal are in units of 1/3000000 (0.5 is 1500000),   *)
(*    in which value / 1000000, length / 1000, match_score / 100 and       *)
(*    duration_months / 12 are whole numbers for whole arguments.          *)
(*  - A computation that can raise returns Ok(v) or Raise.                 *)
(***************************************************************************)
EXTENDS Integers, Sequences, FiniteSets, TLC

VARIABLES
    \* ---- the operations without state of their own (matching engine,
    \* ---- opportunities): one call and its answer
    m_pc,          \* "off" | the operation called | the operation returned
    user1,         \* first profile (dict), or the only one
    user2,         \* second profile (dict)
    context,       \* meeting context of the request
    m_result,      \* what the engine returned
    m_score,       \* the local match_score of the /match route (line 611)
    textblob,      \* text -> what TextBlob(text).noun_phrases gave in the call
    \* ---- market intelligence: the cache, the clock, the request threads
    trends_cache,  \* MarketIntelligenceEngine.trends_cache: key -> entry
    clock,         \* datetime.now(), in hours
    computed,      \* number of fresh bundles built so far (observer)
    t_pc,          \* thread -> position in analyze_market_trends
    t_req,         \* thread -> its arguments [industry, location]
    t_key,         \* thread -> local cache_key
    t_now,         \* thread -> local now
    t_trends,      \* thread -> local trends
    t_ret,         \* thread -> the value returned
    t_snap,        \* thread -> cache and computed when it was called (observer)
    \* ---- deal predictor: the estimator and the request threads
    is_trained,    \* DealSuccessPredictor.is_trained
    fitting,       \* number of threads inside model.fit
    trainings,     \* number of executions of _train_model (observer)
    d_calls,       \* number of calls of predict_deal_success (observer)
    d_trained_in,  \* the number of the call that trained first, or 0 (observer)
    d_first_ok,    \* the number of the first call whose features were
                   \* extracted, or 0 (observer)
    d_pc,          \* thread -> position in predict_deal_success
    d_no,          \* thread -> the number of its call (observer)
    d_deal,        \* thread -> its argument deal_data
    d_features,    \* thread -> local features
    d_estimate,    \* thread -> what model.predict returned
    d_raced,       \* thread -> model.predict ran during a fit (observer)
    d_ret          \* thread -> the value returned

m_vars == <<m_pc, user1, user2, context, m_result, m_score, textblob>>
t_vars == <<trends_cache, clock, computed, t_pc, t_req, t_key, t_now,
            t_trends, t_ret, t_snap>>
d_vars == <<is_trained, fitting, trainings, d_calls, d_trained_in, d_first_ok,
            d_pc, d_no,
            d_deal, d_features, d_estimate, d_raced, d_ret>>
vars == <<m_vars, t_vars, d_vars>>

-----------------------------------------------------------------------------
(* Python values *)

Str(s) == [tag |-> "str", s |-> s, n |-> 0]
Num(n) == [tag |-> "num", s |-> <<>>, n |-> n]
None == [tag |-> "none", s |-> <<>>, n |-> 0]

IsStr(x) == x.tag = "str"
IsNum(x) == x.tag = "num"

Ok(v) == [ok |-> TRUE, v |-> v]
Raise == [ok |-> FALSE, v |-> 0]

\* try: body / except Exception: return default
Except(body, default) == IF body.ok THEN body ELSE default

\* dict.get(k, default)
Get(d, k, default) == IF k \in DOMAIN d THEN d[k] ELSE default

\* Python truthiness of a value: '' , 0 and None are false
Truthy(x) ==
    CASE x.tag = "str" -> x.s # <<>>
      [] x.tag = "num" -> x.n # 0
      [] OTHER -> FALSE

Min(a, b) == IF a <= b THEN a ELSE b
Max(a, b) == IF a >= b THEN a ELSE b
Abs(a) == IF a < 0 THEN 0 - a ELSE a

\* A float that comes out of a division is the exact quotient: a fraction
\* [n, d] in lowest terms with d > 0
RECURSIVE GCD(_, _)
GCD(a, b) == IF b = 0 THEN a ELSE GCD(b, a % b)
Frac(n, d) ==
    LET g == GCD(Abs(n), Abs(d))
    IN  IF d < 0 THEN [n |-> (0 - n) \div g, d |-> (0 - d) \div g]
        ELSE [n |-> n \div g, d |-> d \div g]
Whole(k) == [n |-> k, d |-> 1]
FAdd(x, y) == Frac(x.n * y.d + y.n * x.d, x.d * y.d)
FMul(k, x) == Frac(k * x.n, x.d)
FLess(x, y) == x.n * y.d < y.n * x.d
FLeq(x, y) == x.n * y.d <= y.n * x.d
FMin(x, y) == IF FLeq(x, y) THEN x ELSE y
FMax(x, y) == IF FLeq(y, x) THEN x ELSE y
FClamp(x, lo, hi) == FMin(FMax(x, lo), hi)

-----------------------------------------------------------------------------
(* Python str operations *)

\* A str is a sequence of characters and a character is a string.  The
\* characters up to chr(255) are written as themselves; chr(0), the
\* backtick chr(96) and the characters above chr(255), which a string of
\* this language cannot hold, are written by their code point in four to
\* six hexadecimal digits: "U+212A" is the one character chr(0x212A)
Chr(n) ==
    LET RECURSIVE hex(_)
        hex(k) == (IF k < 16 THEN "" ELSE hex(k \div 16))
                  \o SubSeq("0123456789ABCDEF", (k % 16) + 1, (k % 16) + 1)
    IN  "U+" \o (IF n < 16 THEN "000" ELSE IF n < 256 THEN "00"
                 ELSE IF n < 4096 THEN "0" ELSE "") \o hex(n)

\* the number that hexadecimal digits write
RECURSIVE Number(_)
Number(digits) ==
    IF digits = "" THEN 0
    ELSE 16 * Number(SubSeq(digits, 1, Len(digits) - 1))
         + (CHOOSE v \in 0..15 :
                SubSeq("0123456789ABCDEF", v + 1, v + 1)
                    = SubSeq(digits, Len(digits), Len(digits)))

\* the code point of a character written by its code point
Ord(c) == Number(SubSeq(c, 3, Len(c)))

\* c is one of the characters of a string of characters up to chr(255)
InStr(c, chars) == \E k \in 1..Len(chars) : SubSeq(chars, k, k) = c

\* the rows of a table of code points: every row is written as its numbers
\* in six hexadecimal digits, each followed by one separating character
Rows(table, numbers) ==
    { [f \in 1..numbers |->
          Number(SubSeq(table, 7 * (numbers * k + f) - 6, 7 * (numbers * k + f) - 1))] :
        k \in 0..((Len(table) \div (7 * numbers)) - 1) }

\* the characters above chr(255) that str.lower() replaces by another
\* character above chr(255), in rows "first-last/step>lower;": the code
\* points first, first + step, ..., last are replaced by lower,
\* lower + step, ...
LowerRanges ==
    Rows("000100-00012E/000002>000101;000132-000136/000002>000133;000139-000147/000002>00013A;00014A-000176/000002>00014B;000179-00017D/000002>00017A;000181-000181/000001>000253;000182-000184/000002>000183;000186-000186/000001>000254;000187-000187/000001>000188;000189-00018A/000001>000256;00018B-00018B/000001>00018C;00018E-00018E/000001>0001DD;00018F-00018F/000001>000259;000190-000190/000001>00025B;000191-000191/000001>000192;000193-000193/000001>000260;000194-000194/000001>000263;000196-000196/000001>000269;000197-000197/000001>000268;000198-000198/000001>000199;00019C-00019C/000001>00026F;00019D-00019D/000001>000272;00019F-00019F/000001>000275;0001A0-0001A4/000002>0001A1;0001A6-0001A6/000001>000280;0001A7-0001A7/000001>0001A8;0001A9-0001A9/000001>000283;0001AC-0001AC/000001>0001AD;0001AE-0001AE/000001>000288;0001AF-0001AF/000001>0001B0;0001B1-0001B2/000001>00028A;0001B3-0001B5/000002>0001B4;0001B7-0001B7/000001>000292;0001B8-0001B8/000001>0001B9;0001BC-0001BC/000001>0001BD;0001C4-0001C4/000001>0001C6;0001C5-0001C5/000001>0001C6;0001C7-0001C7/000001>0001C9;0001C8-0001C8/000001>0001C9;0001CA-0001CA/000001>0001CC;0001CB-0001DB/000002>0001CC;0001DE-0001EE/000002>0001DF;0001F1-0001F1/000001>0001F3;0001F2-0001F4/000002>0001F3;0001F6-0001F6/000001>000195;0001F7-0001F7/000001>0001BF;0001F8-00021E/000002>0001F9;000220-000220/000001>00019E;000222-000232/000002>000223;00023A-00023A/000001>002C65;00023B-00023B/000001>00023C;00023D-00023D/000001>00019A;00023E-00023E/000001>002C66;000241-000241/000001>000242;000243-000243/000001>000180;000244-000244/000001>000289;000245-000245/000001>00028C;000246-00024E/000002>000247;000370-000372/000002>000371;000376-000376/000001>000377;00037F-00037F/000001>0003F3;000386-000386/000001>0003AC;000388-00038A/000001>0003AD;00038C-00038C/000001>0003CC;00038E-00038F/000001>0003CD;000391-0003A1/000001>0003B1;0003A3-0003AB/000001>0003C3;0003CF-0003CF/000001>0003D7;0003D8-0003EE/000002>0003D9;0003F4-0003F4/000001>0003B8;0003F7-0003F7/000001>0003F8;0003F9-0003F9/000001>0003F2;0003FA-0003FA/000001>0003FB;0003FD-0003FF/000001>00037B;000400-00040F/000001>000450;000410-00042F/000001>000430;000460-000480/000002>000461;00048A-0004BE/000002>00048B;0004C0-0004C0/000001>0004CF;0004C1-0004CD/000002>0004C2;0004D0-00052E/000002>0004D1;000531-000556/000001>000561;0010A0-0010C5/000001>002D00;0010C7-0010C7/000001>002D27;0010CD-0010CD/000001>002D2D;0013A0-0013EF/000001>00AB70;0013F0-0013F5/000001>0013F8;001C90-001CBA/000001>0010D0;001CBD-001CBF/000001>0010FD;001E00-001E94/000002>001E01;001EA0-001EFE/000002>001EA1;001F08-001F0F/000001>001F00;001F18-001F1D/000001>001F10;001F28-001F2F/000001>001F20;001F38-001F3F/000001>001F30;001F48-001F4D/000001>001F40;001F59-001F5F/000002>001F51;001F68-001F6F/000001>001F60;001F88-001F8F/000001>001F80;001F98-001F9F/000001>001F90;001FA8-001FAF/000001>001FA0;001FB8-001FB9/000001>001FB0;001FBA-001FBB/000001>001F70;001FBC-001FBC/000001>001FB3;001FC8-001FCB/000001>001F72;001FCC-001FCC/000001>001FC3;001FD8-001FD9/000001>001FD0;001FDA-001FDB/000001>001F76;001FE8-001FE9/000001>001FE0;001FEA-001FEB/000001>001F7A;001FEC-001FEC/000001>001FE5;001FF8-001FF9/000001>001F78;001FFA-001FFB/000001>001F7C;001FFC-001FFC/000001>001FF3;002126-002126/000001>0003C9;002132-002132/000001>00214E;002160-00216F/000001>002170;002183-002183/000001>002184;0024B6-0024CF/000001>0024D0;002C00-002C2F/000001>002C30;002C60-002C60/000001>002C61;002C62-002C62/000001>00026B;002C63-002C63/000001>001D7D;002C64-002C64/000001>00027D;002C67-002C6B/000002>002C68;002C6D-002C6D/000001>000251;002C6E-002C6E/000001>000271;002C6F-002C6F/000001>000250;002C70-002C70/000001>000252;002C72-002C72/000001>002C73;002C75-002C75/000001>002C76;002C7E-002C7F/000001>00023F;002C80-002CE2/000002>002C81;002CEB-002CED/000002>002CEC;002CF2-002CF2/000001>002CF3;00A640-00A66C/000002>00A641;00A680-00A69A/000002>00A681;00A722-00A72E/000002>00A723;00A732-00A76E/000002>00A733;00A779-00A77B/000002>00A77A;00A77D-00A77D/000001>001D79;00A77E-00A786/000002>00A77F;00A78B-00A78B/000001>00A78C;00A78D-00A78D/000001>000265;00A790-00A792/000002>00A791;00A796-00A7A8/000002>00A797;00A7AA-00A7AA/000001>000266;00A7AB-00A7AB/000001>00025C;00A7AC-00A7AC/000001>000261;00A7AD-00A7AD/000001>00026C;00A7AE-00A7AE/000001>00026A;00A7B0-00A7B0/000001>00029E;00A7B1-00A7B1/000001>000287;00A7B2-00A7B2/000001>00029D;00A7B3-00A7B3/000001>00AB53;00A7B4-00A7C2/000002>00A7B5;00A7C4-00A7C4/000001>00A794;00A7C5-00A7C5/000001>000282;00A7C6-00A7C6/000001>001D8E;00A7C7-00A7C9/000002>00A7C8;00A7D0-00A7D0/000001>00A7D1;00A7D6-00A7D8/000002>00A7D7;00A7F5-00A7F5/000001>00A7F6;00FF21-00FF3A/000001>00FF41;010400-010427/000001>010428;0104B0-0104D3/000001>0104D8;010570-010594/000002>010597;010571-010579/000002>010598;01057D-010589/000002>0105A4;01058D-010591/000002>0105B4;010595-010595/000001>0105BC;010C80-010CB2/000001>010CC0;0118A0-0118BF/000001>0118C0;016E40-016E5F/000001>016E60;01E900-01E921/000001>01E922;", 4)

\* the code point of chr(n).lower() for a character above chr(255) of the
\* rows
LowerAbove(n, rows) ==
    IF \E r \in rows : r[1] <= n /\ n <= r[2] /\ (n - r[1]) % r[3] = 0
      THEN n + ((CHOOSE r \in rows :
                    r[1] <= n /\ n <= r[2] /\ (n - r[1]) % r[3] = 0)[4]
                - (CHOOSE r \in rows :
                    r[1] <= n /\ n <= r[2] /\ (n - r[1]) % r[3] = 0)[1])
    ELSE n

\* c.lower() for a character c: a str of one character, or of two for
\* chr(0x130).  (The capital sigma is lowered here as it is when it stands
\* alone; Lower gives it its final form where the text asks for it.)
LowerChar(c) ==
    CASE c = "A" -> <<"a">> [] c = "B" -> <<"b">> [] c = "C" -> <<"c">>
      [] c = "D" -> <<"d">> [] c = "E" -> <<"e">> [] c = "F" -> <<"f">>
      [] c = "G" -> <<"g">> [] c = "H" -> <<"h">> [] c = "I" -> <<"i">>
      [] c = "J" -> <<"j">> [] c = "K" -> <<"k">> [] c = "L" -> <<"l">>
      [] c = "M" -> <<"m">> [] c = "N" -> <<"n">> [] c = "O" -> <<"o">>
      [] c = "P" -> <<"p">> [] c = "Q" -> <<"q">> [] c = "R" -> <<"r">>
      [] c = "S" -> <<"s">> [] c = "T" -> <<"t">> [] c = "U" -> <<"u">>
      [] c = "V" -> <<"v">> [] c = "W" -> <<"w">> [] c = "X" -> <<"x">>
      [] c = "Y" -> <<"y">> [] c = "Z" -> <<"z">> [] c = "À" -> <<"à">>
      [] c = "Á" -> <<"á">> [] c = "Â" -> <<"â">> [] c = "Ã" -> <<"ã">>
      [] c = "Ä" -> <<"ä">> [] c = "Å" -> <<"å">> [] c = "Æ" -> <<"æ">>
      [] c = "Ç" -> <<"ç">> [] c = "È" -> <<"è">> [] c = "É" -> <<"é">>
      [] c = "Ê" -> <<"ê">> [] c = "Ë" -> <<"ë">> [] c = "Ì" -> <<"ì">>
      [] c = "Í" -> <<"í">> [] c = "Î" -> <<"î">> [] c = "Ï" -> <<"ï">>
      [] c = "Ð" -> <<"ð">> [] c = "Ñ" -> <<"ñ">> [] c = "Ò" -> <<"ò">>
      [] c = "Ó" -> <<"ó">> [] c = "Ô" -> <<"ô">> [] c = "Õ" -> <<"õ">>
      [] c = "Ö" -> <<"ö">> [] c = "Ø" -> <<"ø">> [] c = "Ù" -> <<"ù">>
      [] c = "Ú" -> <<"ú">> [] c = "Û" -> <<"û">> [] c = "Ü" -> <<"ü">>
      [] c = "Ý" -> <<"ý">> [] c = "Þ" -> <<"þ">> [] c = "U+0178" -> <<"ÿ">>
      [] c = "U+1E9E" -> <<"ß">> [] c = "U+212A" -> <<"k">>
      [] c = "U+212B" -> <<"å">> [] c = "U+0130" -> <<"i", "U+0307">>
      [] OTHER ->
          IF Len(c) = 1 THEN <<c>>
          ELSE <<Chr(LowerAbove(Ord(c), LowerRanges))>>

\* the cased characters that are not case-ignorable, and the
\* case-ignorable characters (the two tests str.lower() makes around a
\* capital sigma): the characters up to chr(255) written as themselves,
\* and the ranges "first-last;" of the code points of the others
CasedRanges ==
    Rows("000100-0001BA;0001BC-0001BF;0001C4-000293;000295-0002AF;000370-000373;000376-000377;00037B-00037D;00037F-00037F;000386-000386;000388-00038A;00038C-00038C;00038E-0003A1;0003A3-0003F5;0003F7-000481;00048A-00052F;000531-000556;000560-000588;0010A0-0010C5;0010C7-0010C7;0010CD-0010CD;0010D0-0010FA;0010FD-0010FF;0013A0-0013F5;0013F8-0013FD;001C80-001C88;001C90-001CBA;001CBD-001CBF;001D00-001D2B;001D6B-001D77;001D79-001D9A;001E00-001F15;001F18-001F1D;001F20-001F45;001F48-001F4D;001F50-001F57;001F59-001F59;001F5B-001F5B;001F5D-001F5D;001F5F-001F7D;001F80-001FB4;001FB6-001FBC;001FBE-001FBE;001FC2-001FC4;001FC6-001FCC;001FD0-001FD3;001FD6-001FDB;001FE0-001FEC;001FF2-001FF4;001FF6-001FFC;002102-002102;002107-002107;00210A-002113;002115-002115;002119-00211D;002124-002124;002126-002126;002128-002128;00212A-00212D;00212F-002134;002139-002139;00213C-00213F;002145-002149;00214E-00214E;002160-00217F;002183-002184;0024B6-0024E9;002C00-002C7B;002C7E-002CE4;002CEB-002CEE;002CF2-002CF3;002D00-002D25;002D27-002D27;002D2D-002D2D;00A640-00A66D;00A680-00A69B;00A722-00A76F;00A771-00A787;00A78B-00A78E;00A790-00A7CA;00A7D0-00A7D1;00A7D3-00A7D3;00A7D5-00A7D9;00A7F5-00A7F6;00A7FA-00A7FA;00AB30-00AB5A;00AB60-00AB68;00AB70-00ABBF;00FB00-00FB06;00FB13-00FB17;00FF21-00FF3A;00FF41-00FF5A;010400-01044F;0104B0-0104D3;0104D8-0104FB;010570-01057A;01057C-01058A;01058C-010592;010594-010595;010597-0105A1;0105A3-0105B1;0105B3-0105B9;0105BB-0105BC;010C80-010CB2;010CC0-010CF2;0118A0-0118DF;016E40-016E7F;01D400-01D454;01D456-01D49C;01D49E-01D49F;01D4A2-01D4A2;01D4A5-01D4A6;01D4A9-01D4AC;01D4AE-01D4B9;01D4BB-01D4BB;01D4BD-01D4C3;01D4C5-01D505;01D507-01D50A;01D50D-01D514;01D516-01D51C;01D51E-01D539;01D53B-01D53E;01D540-01D544;01D546-01D546;01D54A-01D550;01D552-01D6A5;01D6A8-01D6C0;01D6C2-01D6DA;01D6DC-01D6FA;01D6FC-01D714;01D716-01D734;01D736-01D74E;01D750-01D76E;01D770-01D788;01D78A-01D7A8;01D7AA-01D7C2;01D7C4-01D7CB;01DF00-01DF09;01DF0B-01DF1E;01E900-01E943;01F130-01F149;01F150-01F169;01F170-01F189;", 2)
Cased(c) ==
    IF Len(c) > 1
      THEN \E r \in CasedRanges : r[1] <= Ord(c) /\ Ord(c) <= r[2]
    ELSE InStr(c, "ABCDEFGHIJKLMNOPQRSTUVWXYZabcdefghijklmnopqrstuvwxyzªµºÀÁÂÃÄÅÆÇÈÉÊËÌÍÎÏÐÑÒÓÔÕÖØÙÚÛÜÝÞßàáâãäåæçèéêëìíîïðñòóôõöøùúûüýþÿ")
CaseIgnorableRanges ==
    Rows("000060-000060;0002B0-00036F;000374-000375;00037A-00037A;000384-000385;000387-000387;000483-000489;000559-000559;00055F-00055F;000591-0005BD;0005BF-0005BF;0005C1-0005C2;0005C4-0005C5;0005C7-0005C7;0005F4-0005F4;000600-000605;000610-00061A;00061C-00061C;000640-000640;00064B-00065F;000670-000670;0006D6-0006DD;0006DF-0006E8;0006EA-0006ED;00070F-00070F;000711-000711;000730-00074A;0007A6-0007B0;0007EB-0007F5;0007FA-0007FA;0007FD-0007FD;000816-00082D;000859-00085B;000888-000888;000890-000891;000898-00089F;0008C9-000902;00093A-00093A;00093C-00093C;000941-000948;00094D-00094D;000951-000957;000962-000963;000971-000971;000981-000981;0009BC-0009BC;0009C1-0009C4;0009CD-0009CD;0009E2-0009E3;0009FE-0009FE;000A01-000A02;000A3C-000A3C;000A41-000A42;000A47-000A48;000A4B-000A4D;000A51-000A51;000A70-000A71;000A75-000A75;000A81-000A82;000ABC-000ABC;000AC1-000AC5;000AC7-000AC8;000ACD-000ACD;000AE2-000AE3;000AFA-000AFF;000B01-000B01;000B3C-000B3C;000B3F-000B3F;000B41-000B44;000B4D-000B4D;000B55-000B56;000B62-000B63;000B82-000B82;000BC0-000BC0;000BCD-000BCD;000C00-000C00;000C04-000C04;000C3C-000C3C;000C3E-000C40;000C46-000C48;000C4A-000C4D;000C55-000C56;000C62-000C63;000C81-000C81;000CBC-000CBC;000CBF-000CBF;000CC6-000CC6;000CCC-000CCD;000CE2-000CE3;000D00-000D01;000D3B-000D3C;000D41-000D44;000D4D-000D4D;000D62-000D63;000D81-000D81;000DCA-000DCA;000DD2-000DD4;000DD6-000DD6;000E31-000E31;000E34-000E3A;000E46-000E4E;000EB1-000EB1;000EB4-000EBC;000EC6-000EC6;000EC8-000ECD;000F18-000F19;000F35-000F35;000F37-000F37;000F39-000F39;000F71-000F7E;000F80-000F84;000F86-000F87;000F8D-000F97;000F99-000FBC;000FC6-000FC6;00102D-001030;001032-001037;001039-00103A;00103D-00103E;001058-001059;00105E-001060;001071-001074;001082-001082;001085-001086;00108D-00108D;00109D-00109D;0010FC-0010FC;00135D-00135F;001712-001714;001732-001733;001752-001753;001772-001773;0017B4-0017B5;0017B7-0017BD;0017C6-0017C6;0017C9-0017D3;0017D7-0017D7;0017DD-0017DD;00180B-00180F;001843-001843;001885-001886;0018A9-0018A9;001920-001922;001927-001928;001932-001932;001939-00193B;001A17-001A18;001A1B-001A1B;001A56-001A56;001A58-001A5E;001A60-001A60;001A62-001A62;001A65-001A6C;001A73-001A7C;001A7F-001A7F;001AA7-001AA7;001AB0-001ACE;001B00-001B03;001B34-001B34;001B36-001B3A;001B3C-001B3C;001B42-001B42;001B6B-001B73;001B80-001B81;001BA2-001BA5;001BA8-001BA9;001BAB-001BAD;001BE6-001BE6;001BE8-001BE9;001BED-001BED;001BEF-001BF1;001C2C-001C33;001C36-001C37;001C78-001C7D;001CD0-001CD2;001CD4-001CE0;001CE2-001CE8;001CED-001CED;001CF4-001CF4;001CF8-001CF9;001D2C-001D6A;001D78-001D78;001D9B-001DFF;001FBD-001FBD;001FBF-001FC1;001FCD-001FCF;001FDD-001FDF;001FED-001FEF;001FFD-001FFE;00200B-00200F;002018-002019;002024-002024;002027-002027;00202A-00202E;002060-002064;002066-00206F;002071-002071;00207F-00207F;002090-00209C;0020D0-0020F0;002C7C-002C7D;002CEF-002CF1;002D6F-002D6F;002D7F-002D7F;002DE0-002DFF;002E2F-002E2F;003005-003005;00302A-00302D;003031-003035;00303B-00303B;003099-00309E;0030FC-0030FE;00A015-00A015;00A4F8-00A4FD;00A60C-00A60C;00A66F-00A672;00A674-00A67D;00A67F-00A67F;00A69C-00A69F;00A6F0-00A6F1;00A700-00A721;00A770-00A770;00A788-00A78A;00A7F2-00A7F4;00A7F8-00A7F9;00A802-00A802;00A806-00A806;00A80B-00A80B;00A825-00A826;00A82C-00A82C;00A8C4-00A8C5;00A8E0-00A8F1;00A8FF-00A8FF;00A926-00A92D;00A947-00A951;00A980-00A982;00A9B3-00A9B3;00A9B6-00A9B9;00A9BC-00A9BD;00A9CF-00A9CF;00A9E5-00A9E6;00AA29-00AA2E;00AA31-00AA32;00AA35-00AA36;00AA43-00AA43;00AA4C-00AA4C;00AA70-00AA70;00AA7C-00AA7C;00AAB0-00AAB0;00AAB2-00AAB4;00AAB7-00AAB8;00AABE-00AABF;00AAC1-00AAC1;00AADD-00AADD;00AAEC-00AAED;00AAF3-00AAF4;00AAF6-00AAF6;00AB5B-00AB5F;00AB69-00AB6B;00ABE5-00ABE5;00ABE8-00ABE8;00ABED-00ABED;00FB1E-00FB1E;00FBB2-00FBC2;00FE00-00FE0F;00FE13-00FE13;00FE20-00FE2F;00FE52-00FE52;00FE55-00FE55;00FEFF-00FEFF;00FF07-00FF07;00FF0E-00FF0E;00FF1A-00FF1A;00FF3E-00FF3E;00FF40-00FF40;00FF70-00FF70;00FF9E-00FF9F;00FFE3-00FFE3;00FFF9-00FFFB;0101FD-0101FD;0102E0-0102E0;010376-01037A;010780-010785;010787-0107B0;0107B2-0107BA;010A01-010A03;010A05-010A06;010A0C-010A0F;010A38-010A3A;010A3F-010A3F;010AE5-010AE6;010D24-010D27;010EAB-010EAC;010F46-010F50;010F82-010F85;011001-011001;011038-011046;011070-011070;011073-011074;01107F-011081;0110B3-0110B6;0110B9-0110BA;0110BD-0110BD;0110C2-0110C2;0110CD-0110CD;011100-011102;011127-01112B;01112D-011134;011173-011173;011180-011181;0111B6-0111BE;0111C9-0111CC;0111CF-0111CF;01122F-011231;011234-011234;011236-011237;01123E-01123E;0112DF-0112DF;0112E3-0112EA;011300-011301;01133B-01133C;011340-011340;011366-01136C;011370-011374;011438-01143F;011442-011444;011446-011446;01145E-01145E;0114B3-0114B8;0114BA-0114BA;0114BF-0114C0;0114C2-0114C3;0115B2-0115B5;0115BC-0115BD;0115BF-0115C0;0115DC-0115DD;011633-01163A;01163D-01163D;01163F-011640;0116AB-0116AB;0116AD-0116AD;0116B0-0116B5;0116B7-0116B7;01171D-01171F;011722-011725;011727-01172B;01182F-011837;011839-01183A;01193B-01193C;01193E-01193E;011943-011943;0119D4-0119D7;0119DA-0119DB;0119E0-0119E0;011A01-011A0A;011A33-011A38;011A3B-011A3E;011A47-011A47;011A51-011A56;011A59-011A5B;011A8A-011A96;011A98-011A99;011C30-011C36;011C38-011C3D;011C3F-011C3F;011C92-011CA7;011CAA-011CB0;011CB2-011CB3;011CB5-011CB6;011D31-011D36;011D3A-011D3A;011D3C-011D3D;011D3F-011D45;011D47-011D47;011D90-011D91;011D95-011D95;011D97-011D97;011EF3-011EF4;013430-013438;016AF0-016AF4;016B30-016B36;016B40-016B43;016F4F-016F4F;016F8F-016F9F;016FE0-016FE1;016FE3-016FE4;01AFF0-01AFF3;01AFF5-01AFFB;01AFFD-01AFFE;01BC9D-01BC9E;01BCA0-01BCA3;01CF00-01CF2D;01CF30-01CF46;01D167-01D169;01D173-01D182;01D185-01D18B;01D1AA-01D1AD;01D242-01D244;01DA00-01DA36;01DA3B-01DA6C;01DA75-01DA75;01DA84-01DA84;01DA9B-01DA9F;01DAA1-01DAAF;01E000-01E006;01E008-01E018;01E01B-01E021;01E023-01E024;01E026-01E02A;01E130-01E13D;01E2AE-01E2AE;01E2EC-01E2EF;01E8D0-01E8D6;01E944-01E94B;01F3FB-01F3FF;0E0001-0E0001;0E0020-0E007F;0E0100-0E01EF;", 2)
CaseIgnorable(c) ==
    IF Len(c) > 1
      THEN \E r \in CaseIgnorableRanges : r[1] <= Ord(c) /\ Ord(c) <= r[2]
    ELSE InStr(c, "'.:^¨­¯´·¸")

\* s[i..j].lower(): every character is lowered; a capital sigma chr(0x3A3)
\* becomes the final sigma chr(0x3C2) when a cased character stands before
\* it and none after it, case-ignorable characters in between not counted,
\* and the sigma chr(0x3C3) otherwise.  The result is the concatenation of
\* the lowered characters (of the two halves, when there are several)
RECURSIVE LowerOf(_, _, _)
LowerOf(s, i, j) ==
    IF i > j THEN <<>>
    ELSE IF i < j
      THEN LowerOf(s, i, (i + j) \div 2) \o LowerOf(s, ((i + j) \div 2) + 1, j)
    ELSE IF s[i] # "U+03A3" THEN LowerChar(s[i])
    ELSE IF \A side \in {"before", "after"} :
              (side = "before") <=>
                  \E n \in (IF side = "before" THEN 1..(i - 1)
                            ELSE (i + 1)..Len(s)) :
                      /\ Cased(s[n])
                      /\ \A k \in (IF side = "before" THEN (n + 1)..(i - 1)
                                   ELSE (i + 1)..(n - 1)) :
                             CaseIgnorable(s[k])
      THEN <<"U+03C2">>
    ELSE <<"U+03C3">>

\* s.lower()
Lower(s) == LowerOf(s, 1, Len(s))

\* w in s
Contains(s, w) ==
    \E i \in 0..(Len(s) - Len(w)) : SubSeq(s, i + 1, i + Len(w)) = w

\* the characters str.split() splits on: the blank, tab, newline, carriage
\* return and form feed, the vertical tab chr(11), the separators chr(28)
\* to chr(31), the next-line control chr(133), the no-break space chr(160)
\* and, above chr(255), the Ogham space mark, the spaces chr(0x2000) to
\* chr(0x200A), the line and the paragraph separator, the narrow no-break
\* space, the medium mathematical space and the ideographic space
Whitespace ==
    {" ", "\t", "\n", "\r", "\f", "", "", "", "", "", "",
     " ",
     "U+1680", "U+2000", "U+2001", "U+2002", "U+2003", "U+2004", "U+2005",
     "U+2006", "U+2007", "U+2008", "U+2009", "U+200A", "U+2028", "U+2029",
     "U+202F", "U+205F", "U+3000"}

\* s.split(): the maximal runs of characters that are no whitespace (as a
\* set)
Split(s) ==
    { SubSeq(s, p[1], p[2]) :
        p \in { q \in (1..Len(s)) \X (1..Len(s)) :
                  /\ q[1] <= q[2]
                  /\ \A k \in q[1]..q[2] : s[k] \notin Whitespace
                  /\ (q[1] = 1 \/ s[q[1] - 1] \in Whitespace)
                  /\ (q[2] = Len(s) \/ s[q[2] + 1] \in Whitespace) } }

-----------------------------------------------------------------------------
(* String literals of the source *)

s_technology == <<"t", "e", "c", "h", "n", "o", "l", "o", "g", "y">>
s_finance == <<"f", "i", "n", "a", "n", "c", "e">>
s_healthcare == <<"h", "e", "a", "l", "t", "h", "c", "a", "r", "e">>
s_marketing == <<"m", "a", "r", "k", "e", "t", "i", "n", "g">>
s_consulting == <<"c", "o", "n", "s", "u", "l", "t", "i", "n", "g">>
s_retail == <<"r", "e", "t", "a", "i", "l">>
s_media == <<"m", "e", "d", "i", "a">>
s_research == <<"r", "e", "s", "e", "a", "r", "c", "h">>
s_pharmaceuticals == <<"p", "h", "a", "r", "m", "a", "c", "e", "u", "t", "i", "c", "a", "l", "s">>
s_real_estate == <<"r", "e", "a", "l", "-", "e", "s", "t", "a", "t", "e">>
s_ceo == <<"c", "e", "o">>
s_founder == <<"f", "o", "u", "n", "d", "e", "r">>
s_president == <<"p", "r", "e", "s", "i", "d", "e", "n", "t">>
s_owner == <<"o", "w", "n", "e", "r">>
s_director == <<"d", "i", "r", "e", "c", "t", "o", "r">>
s_vp == <<"v", "p">>
s_head == <<"h", "e", "a", "d">>
s_manager == <<"m", "a", "n", "a", "g", "e", "r">>
s_lead == <<"l", "e", "a", "d">>
s_principal == <<"p", "r", "i", "n", "c", "i", "p", "a", "l">>
s_senior == <<"s", "e", "n", "i", "o", "r">>
s_sr == <<"s", "r">>
s_business == <<"b", "u", "s", "i", "n", "e", "s", "s">>
s_networking == <<"n", "e", "t", "w", "o", "r", "k", "i", "n", "g">>
s_office == <<"o", "f", "f", "i", "c", "e">>
s_conference == <<"c", "o", "n", "f", "e", "r", "e", "n", "c", "e">>
s_business_hours == <<"b", "u", "s", "i", "n", "e", "s", "s", "_", "h", "o", "u", "r", "s">>
s_vice_president == <<"v", "i", "c", "e", " ", "p", "r", "e", "s", "i", "d", "e", "n", "t">>
s_coffee_shop == <<"c", "o", "f", "f", "e", "e", "_", "s", "h", "o", "p">>

-----------------------------------------------------------------------------
(* AdvancedMatchingEngine *)

\* the affinity table of _calculate_industry_compatibility, in thousandths
compatibility_matrix ==
    (s_technology :> (s_finance :> 800 @@ s_healthcare :> 700 @@
                      s_technology :> 900 @@ s_marketing :> 750)) @@
    (s_finance :> (s_technology :> 800 @@ s_real_estate :> 900 @@
                   s_finance :> 600 @@ s_consulting :> 850)) @@
    (s_healthcare :> (s_technology :> 700 @@ s_pharmaceuticals :> 900 @@
                      s_healthcare :> 500 @@ s_research :> 800)) @@
    (s_marketing :> (s_technology :> 750 @@ s_retail :> 800 @@
                     s_media :> 900 @@ s_marketing :> 600)) @@
    (s_consulting :> (s_finance :> 850 @@ s_technology :> 750 @@
                      s_healthcare :> 700 @@ s_consulting :> 500))

\* calculate_industry_compatibility without .lower()
calculate_industry_compatibility_cased(industry1, industry2) ==
    IF ~IsStr(industry1) \/ ~IsStr(industry2) THEN Raise
    ELSE Ok(Get(Get(compatibility_matrix, industry1.s, <<>>),
                industry2.s, 500))

\* str.lower() on a value that is not a str raises AttributeError
calculate_industry_compatibility(industry1, industry2) ==
    IF ~IsStr(industry1) \/ ~IsStr(industry2) THEN Raise
    ELSE Ok(Get(Get(compatibility_matrix, Lower(industry1.s), <<>>),
                Lower(industry2.s), 500))

AnyIn(words, text) == \E w \in words : Contains(text, w)

\* extract_seniority_level with the groups checked from tier 2 up
extract_seniority_level_ascending(title) ==
    IF ~IsStr(title) THEN Raise
    ELSE LET title_lower == Lower(title.s) IN
         IF AnyIn({s_senior, s_sr}, title_lower)
           THEN Ok(2)
         ELSE IF AnyIn({s_manager, s_lead, s_principal}, title_lower)
           THEN Ok(3)
         ELSE IF AnyIn({s_director, s_vp, s_vice_president, s_head}, title_lower)
           THEN Ok(4)
         ELSE IF AnyIn({s_ceo, s_founder, s_president, s_owner}, title_lower)
           THEN Ok(5)
         ELSE Ok(1)

\* lines 235-248
extract_seniority_level(title) ==
    IF ~IsStr(title) THEN Raise
    ELSE LET title_lower == Lower(title.s) IN
         IF AnyIn({s_ceo, s_founder, s_president, s_owner}, title_lower)
           THEN Ok(5)
         ELSE IF AnyIn({s_director, s_vp, s_vice_president, s_head}, title_lower)
           THEN Ok(4)
         ELSE IF AnyIn({s_manager, s_lead, s_principal}, title_lower)
           THEN Ok(3)
         ELSE IF AnyIn({s_senior, s_sr}, title_lower)
           THEN Ok(2)
         ELSE Ok(1)

\* calculate_title_synergy on the signed difference of the levels
calculate_title_synergy_signed(title1, title2) ==
    LET seniority1 == extract_seniority_level(title1)
        seniority2 == extract_seniority_level(title2)
    IN  IF ~seniority1.ok \/ ~seniority2.ok THEN Raise
        ELSE LET level_diff == seniority1.v - seniority2.v IN
             IF 1 <= level_diff /\ level_diff <= 2 THEN Ok(800)
             ELSE IF level_diff = 0 THEN Ok(600)
             ELSE Ok(400)

\* lines 173-185
calculate_title_synergy(title1, title2) ==
    LET seniority1 == extract_seniority_level(title1)
        seniority2 == extract_seniority_level(title2)
    IN  IF ~seniority1.ok \/ ~seniority2.ok THEN Raise
        ELSE LET level_diff == Abs(seniority1.v - seniority2.v) IN
             IF 1 <= level_diff /\ level_diff <= 2 THEN Ok(800)
             ELSE IF level_diff = 0 THEN Ok(600)
             ELSE Ok(400)

\* TextBlob(bio).noun_phrases.  The extractor is a library outside the
\* repository and the source fixes nothing about its answer: a request
\* comes with the answers of the installed extractor for its texts, held in
\* the variable textblob (text -> the phrases found, or an exception).
noun_phrases(bio) == textblob[bio]

\* the extractors that the requests of the model come with: one that raises
\* (its corpus is missing), one that finds no phrase, one that finds every
\* word of the text and one that finds the whole text as one phrase
Extractors == {"raises", "nothing", "words", "text"}
Extraction(extractor, text) ==
    CASE extractor = "raises" -> [ok |-> FALSE, v |-> {}]
      [] extractor = "nothing" -> [ok |-> TRUE, v |-> {}]
      [] extractor = "words" -> [ok |-> TRUE, v |-> Split(text)]
      [] extractor = "text" -> [ok |-> TRUE, v |-> {text}]

\* the answers an extractor gives for the bios of two profiles; no text is
\* given to it when line 189 returns first or a bio is no str
TextBlobs(user1_data, user2_data) ==
    LET bio1 == Get(user1_data, "bio", Str(<<>>))
        bio2 == Get(user2_data, "bio", Str(<<>>))
    IN  IF ~Truthy(bio1) \/ ~Truthy(bio2) \/ ~IsStr(bio1) \/ ~IsStr(bio2)
          THEN {<<>>}
        ELSE { [text \in {bio1.s, bio2.s} |-> Extraction(extractor, text)] :
                 extractor \in Extractors }

\* lines 187-212.  The inner try/except of the source turns every failure
\* (a bio that is not a str, an exception of the extractor) into 0.5, so
\* this helper never raises.  The result is a fraction of thousandths:
\* intersection / union is exact
calculate_bio_similarity(bio1, bio2) ==
    IF ~Truthy(bio1) \/ ~Truthy(bio2) THEN Ok(Whole(500))
    ELSE IF ~IsStr(bio1) \/ ~IsStr(bio2) THEN Ok(Whole(500))
    ELSE IF ~noun_phrases(bio1.s).ok \/ ~noun_phrases(bio2.s).ok
      THEN Ok(Whole(500))
    ELSE LET keywords1 == { Lower(word) : word \in noun_phrases(bio1.s).v }
             keywords2 == { Lower(word) : word \in noun_phrases(bio2.s).v }
             intersection == Cardinality(keywords1 \cap keywords2)
             union == Cardinality(keywords1 \cup keywords2)
         IN  IF keywords1 = {} \/ keywords2 = {} THEN Ok(Whole(500))
             ELSE IF union > 0 THEN Ok(Frac(intersection * 1000, union))
             ELSE Ok(Whole(0))

\* calculate_network_value_compatibility without the floor of 0.2
calculate_network_value_compatibility_unfloored(value1, value2) ==
    IF (IsNum(value1) /\ value1.n = 0) \/ (IsNum(value2) /\ value2.n = 0)
      THEN Ok(Whole(300))
    ELSE IF ~IsNum(value1) \/ ~IsNum(value2) THEN Raise
    ELSE Ok(Frac(Min(value1.n, value2.n) * 1000, Max(value1.n, value2.n)))

\* lines 214-220.
\* value == 0 is False for None and for a str; min/max or the division
\* raise TypeError when a value is not a number.  The result is a fraction
\* of thousandths: ratio * 0.8 + 0.2 with the exact ratio min / max
calculate_network_value_compatibility(value1, value2) ==
    IF (IsNum(value1) /\ value1.n = 0) \/ (IsNum(value2) /\ value2.n = 0)
      THEN Ok(Whole(300))
    ELSE IF ~IsNum(value1) \/ ~IsNum(value2) THEN Raise
    ELSE Ok(FAdd(Frac(Min(value1.n, value2.n) * 800,
                      Max(value1.n, value2.n)),
                 Whole(200)))

calculate_location_proximity(loc1, loc2) ==
    IF ~Truthy(loc1) \/ ~Truthy(loc2) THEN Ok(500)
    ELSE IF ~IsStr(loc1) \/ ~IsStr(loc2) THEN Raise
    ELSE IF Lower(loc1.s) = Lower(loc2.s) THEN Ok(1000)
    ELSE IF \E word \in Split(Lower(loc1.s)) : Contains(Lower(loc2.s), word)
      THEN Ok(800)
    ELSE Ok(300)

\* the dict of features; ZeroDivisionError when the larger network value is 0
extract_matching_features(u1, u2) ==
    LET industry_match ==
            calculate_industry_compatibility(Get(u1, "industry", Str(<<>>)),
                                             Get(u2, "industry", Str(<<>>)))
        s1 == extract_seniority_level(Get(u1, "title", Str(<<>>)))
        s2 == extract_seniority_level(Get(u2, "title", Str(<<>>)))
        n1 == Get(u1, "networkValue", Num(1))
        n2 == Get(u2, "networkValue", Num(1))
    IN  IF ~industry_match.ok \/ ~s1.ok \/ ~s2.ok THEN Raise
        ELSE IF ~IsNum(n1) \/ ~IsNum(n2) THEN Raise
        ELSE IF Max(n1.n, n2.n) = 0 THEN Raise
        ELSE Ok([industry_match |-> industry_match.v,
                 seniority_diff |-> Abs(s1.v - s2.v),
                 network_value_ratio |->
                     Frac(Min(n1.n, n2.n) * 1000, Max(n1.n, n2.n))])

\* lines 93-100: the weighted combination, a fraction of thousandths of a
\* point (industry, title and location are whole thousandths, bio and
\* network are fractions)
WeightedScore(industry, title, bio, network, location) ==
    FAdd(Whole(industry * 25 + title * 20 + location * 20),
         FAdd(FMul(20, bio), FMul(15, network)))

\* the body of the try block of calculate_match_score
match_score_try(user1_data, user2_data) ==
    LET features == extract_matching_features(user1_data, user2_data)
        industry_score ==
            calculate_industry_compatibility(
                Get(user1_data, "industry", Str(<<>>)),
                Get(user2_data, "industry", Str(<<>>)))
        title_score ==
            calculate_title_synergy(Get(user1_data, "title", Str(<<>>)),
                                    Get(user2_data, "title", Str(<<>>)))
        bio_score ==
            calculate_bio_similarity(Get(user1_data, "bio", Str(<<>>)),
                                     Get(user2_data, "bio", Str(<<>>)))
        network_score ==
            calculate_network_value_compatibility(
                Get(user1_data, "networkValue", Num(0)),
                Get(user2_data, "networkValue", Num(0)))
        location_score ==
            calculate_location_proximity(
                Get(user1_data, "location", Str(<<>>)),
                Get(user2_data, "location", Str(<<>>)))
    IN  IF ~features.ok \/ ~industry_score.ok \/ ~title_score.ok \/
           ~bio_score.ok \/ ~network_score.ok \/ ~location_score.ok
          THEN Raise
        ELSE Ok(FClamp(WeightedScore(industry_score.v, title_score.v,
                                     bio_score.v, network_score.v,
                                     location_score.v),
                       Whole(0), Whole(100000)))

\* calculate_match_score without its except clause
calculate_match_score_uncaught(user1_data, user2_data) ==
    match_score_try(user1_data, user2_data)

\* except Exception: return 0.0
calculate_match_score(user1_data, user2_data) ==
    Except(match_score_try(user1_data, user2_data), Ok(Whole(0)))


\* A context argument: nothing (None), a dict, or a truthy value of another
\* type (a non-empty list or str), on which .get raises AttributeError
NoContext == [kind |-> "none", d |-> <<>>]
DictContext(d) == [kind |-> "dict", d |-> d]
BadContext == [kind |-> "other", d |-> <<>>]

\* the test `if context:`
ContextTruthy(ctx) ==
    CASE ctx.kind = "none" -> FALSE
      [] ctx.kind = "dict" -> DOMAIN ctx.d # {}
      [] OTHER -> TRUE

\* analyze_meeting_context that recognises only the type 'business'
analyze_meeting_context_business_only(ctx) ==
    IF ctx.kind # "dict" THEN Raise
    ELSE LET context_type == Get(ctx.d, "type", Str(s_business))
             location == Get(ctx.d, "location", Str(s_office))
             timing == Get(ctx.d, "timing", Str(s_business_hours))
             a == IF context_type = Str(s_business) THEN 200 ELSE 0
             b == IF location \in {Str(s_office), Str(s_conference),
                                   Str(s_coffee_shop)}
                    THEN 150 ELSE 0
             c == IF timing = Str(s_business_hours) THEN 150 ELSE 0
         IN  Ok(Min(500 + a + b + c, 1000))

analyze_meeting_context(ctx) ==
    IF ctx.kind # "dict" THEN Raise
    ELSE LET context_type == Get(ctx.d, "type", Str(s_business))
             location == Get(ctx.d, "location", Str(s_office))
             timing == Get(ctx.d, "timing", Str(s_business_hours))
             a == IF context_type \in {Str(s_business), Str(s_networking)}
                    THEN 200 ELSE 0
             b == IF location \in {Str(s_office), Str(s_conference),
                                   Str(s_coffee_shop)}
                    THEN 150 ELSE 0
             c == IF timing = Str(s_business_hours) THEN 150 ELSE 0
         IN  Ok(Min(500 + a + b + c, 1000))

\* lines 130-135, in ten-thousandths of a point: compatibility is the match
\* score (thousandths of a point) over 100, the context score and the
\* average reputation are in thousandths, historical_rate is 0.65
SuccessProbability(match_score, context_score, avg_reputation) ==
    FAdd(FMul(4, match_score),
         Whole(context_score * 250 + avg_reputation * 200 + 650 * 150))

\* the body of the try block of predict_meeting_success
meeting_success_try(user1_data, user2_data, ctx) ==
    LET compatibility == calculate_match_score(user1_data, user2_data)
        context_score == IF ContextTruthy(ctx)
                           THEN analyze_meeting_context(ctx) ELSE Ok(700)
        reputation1 == Get(user1_data, "reputation", Num(50))
        reputation2 == Get(user2_data, "reputation", Num(50))
    IN  IF ~compatibility.ok \/ ~context_score.ok THEN Raise
        ELSE IF ~IsNum(reputation1) \/ ~IsNum(reputation2) THEN Raise
        ELSE Ok(FClamp(SuccessProbability(compatibility.v, context_score.v,
                                          (reputation1.n + reputation2.n) * 5),
                       Whole(0), Whole(1000000)))

\* except Exception: return 50.0
predict_meeting_success(user1_data, user2_data, ctx) ==
    Except(meeting_success_try(user1_data, user2_data, ctx),
           Ok(Whole(500000)))

-----------------------------------------------------------------------------
(* Requests to the matching engine *)

\* a dict with key k absent, or k bound to one of the values
Opt(k, values) == {<<>>} \cup { k :> v : v \in values }

s_Finance == <<"F", "i", "n", "a", "n", "c", "e">>
s_CEO == <<"C", "E", "O">>
s_Manager == <<"M", "a", "n", "a", "g", "e", "r">>
s_ai == <<"a", "i">>
s_AI_ml == <<"A", "I", " ", "m", "l">>
s_Paris == <<"P", "a", "r", "i", "s">>
s_Rome == <<"R", "o", "m", "e">>
s_paris_fr == <<"p", "a", "r", "i", "s", " ", "f", "r">>
s_other == <<"o", "t", "h", "e", "r">>

Industries == {Str(s_technology), Str(s_Finance)}
Titles == {Str(s_CEO), Str(s_Manager)}
Bios == {Str(s_ai), Str(s_AI_ml)}
NetworkValues == {Num(0), Num(4000), Num(5000)}
Locations == {Str(s_Paris), Str(s_paris_fr)}
Reputations == {Num(0), Num(80), Num(100)}

\* profiles whose fields are absent or of the documented type
MatchProfiles ==
    { i @@ t @@ b @@ n @@ l :
        i \in Opt("industry", Industries), t \in Opt("title", Titles),
        b \in Opt("bio", Bios), n \in Opt("networkValue", NetworkValues),
        l \in Opt("location", Locations) }

\* profiles with a field of another type (JSON null, a number for a str,
\* a str for a number)
FullProfile ==
    [industry |-> Str(s_technology), title |-> Str(s_CEO), bio |-> Str(s_ai),
     networkValue |-> Num(5000), location |-> Str(s_Paris)]
MalformedProfiles ==
    { [FullProfile EXCEPT !.industry = None],
      [FullProfile EXCEPT !.title = Num(7)],
      [FullProfile EXCEPT !.bio = Num(7)],
      [FullProfile EXCEPT !.networkValue = Str(s_ai)],
      [FullProfile EXCEPT !.networkValue = None],
      [FullProfile EXCEPT !.location = Num(7)] }

\* profiles of the meeting requests: the reputation varies
MeetingProfiles ==
    { i @@ n @@ r :
        i \in Opt("industry", {Str(s_technology)}),
        n \in Opt("networkValue", {Num(0)}),
        r \in Opt("reputation", Reputations \cup {None}) }

Contexts ==
    {NoContext, BadContext} \cup
    { DictContext(t @@ l @@ m) :
        t \in Opt("type", {Str(s_networking), Str(s_other)}),
        l \in Opt("location", {Str(s_office), Str(s_other)}),
        m \in Opt("timing", {Str(s_business_hours), Str(s_other)}) }

\* every field present has the type the data model documents
ValidProfile(u) ==
    /\ \A k \in DOMAIN u \cap {"industry", "title", "bio", "location"} :
          IsStr(u[k])
    /\ \A k \in DOMAIN u \cap {"networkValue", "reputation"} :
          IsNum(u[k]) /\ u[k].n >= 0
    /\ "reputation" \in DOMAIN u => u["reputation"].n <= 100
ValidContext(ctx) == ctx.kind # "other"


-----------------------------------------------------------------------------
(* MarketIntelligenceEngine *)

\* the request threads of the server
Threads == {"w1", "w2"}

\* a local variable that holds nothing yet
Unset == <<>>

\* line 275: timedelta(hours=6)
cache_expiry == 6

s_None == <<"N", "o", "n", "e">>

\* str(n) of a whole number n >= 0: its decimal digits
RECURSIVE Digits(_)
Digits(n) ==
    LET digit == <<"0", "1", "2", "3", "4", "5", "6", "7", "8", "9">>[(n % 10) + 1]
    IN  IF n < 10 THEN <<digit>> ELSE Digits(n \div 10) \o <<digit>>

\* str(x) inside an f-string: a text as it is, a whole number by its digits
\* with its sign, None as 'None'
Format(x) ==
    IF IsStr(x) THEN x.s
    ELSE IF IsNum(x)
      THEN IF x.n < 0 THEN <<"-">> \o Digits(0 - x.n) ELSE Digits(x.n)
    ELSE s_None

\* line 282: f"{industry}_{user_location}"
cache_key(industry, user_location) ==
    Format(industry) \o <<"_">> \o Format(user_location)

growth_data ==
    (s_technology :> [rate |-> 230, trajectory |-> "accelerating"]) @@
    (s_finance :> [rate |-> 80, trajectory |-> "stable"]) @@
    (s_healthcare :> [rate |-> 150, trajectory |-> "steady"]) @@
    (s_marketing :> [rate |-> 120, trajectory |-> "evolving"]) @@
    (s_consulting :> [rate |-> 60, trajectory |-> "mature"])

calculate_industry_growth(industry) ==
    IF ~IsStr(industry) THEN Raise
    ELSE Ok(Get(growth_data, Lower(industry.s),
                [rate |-> 50, trajectory |-> "stable"]))

trends_db ==
    (s_technology :> <<"AI/ML adoption", "Edge computing", "Quantum computing">>) @@
    (s_finance :> <<"DeFi growth", "Digital banking", "Regulatory tech">>) @@
    (s_healthcare :> <<"Telemedicine", "Precision medicine", "Health AI">>) @@
    (s_marketing :> <<"Influencer marketing", "Privacy-first advertising",
                      "AR/VR experiences">>)

identify_emerging_trends(industry) ==
    IF ~IsStr(industry) THEN Raise
    ELSE Ok(Get(trends_db, Lower(industry.s),
                <<"Digital transformation", "Sustainability focus">>))

\* market_share in thousandths
analyze_competitors ==
    <<[name |-> "Market Leader", market_share |-> 350, threat_level |-> "high"],
      [name |-> "Emerging Player", market_share |-> 150,
       threat_level |-> "medium"],
      [name |-> "Niche Specialist", market_share |-> 80, threat_level |-> "low"]>>

s_startups == <<" ", "s", "t", "a", "r", "t", "u", "p", "s">>
s_infrastructure ==
    <<" ", "i", "n", "f", "r", "a", "s", "t", "r", "u", "c", "t", "u", "r", "e">>

identify_investment_opportunities(industry) ==
    <<[sector |-> Format(industry) \o s_startups,
       potential |-> "high", risk |-> "medium"],
      [sector |-> Format(industry) \o s_infrastructure,
       potential |-> "medium", risk |-> "low"]>>

forecast_market_demand ==
    [short_term |-> "increasing", long_term |-> "strong",
     factors |-> <<"digital transformation", "remote work trends">>]

suggest_pricing_strategies ==
    <<[strategy |-> "Value-based pricing", impact |-> "+15% revenue"],
      [strategy |-> "Dynamic pricing", impact |-> "+8% efficiency"]>>

\* lines 327-344 and 347-354: the opportunity records, confidence in
\* thousandths
technology_opportunities ==
    <<[type |-> "partnership",
       title |-> "AI Integration Partnership",
       description |->
           "Growing demand for AI solutions in traditional industries",
       potential_value |-> "$250K - $2M",
       confidence |-> 780,
       timeline |-> "3-6 months"],
      [type |-> "market_expansion",
       title |-> "Healthcare Tech Expansion",
       description |-> "Digital health market growing 23% annually",
       potential_value |-> "$500K - $5M",
       confidence |-> 850,
       timeline |-> "6-12 months"]>>
investment_opportunity ==
    [type |-> "investment",
     title |-> "Angel Investment Opportunities",
     description |->
         "Your network positions you well for early-stage investments",
     potential_value |-> "$50K - $500K investment rounds",
     confidence |-> 720,
     timeline |-> "1-3 months"]

\* line 357: sort(key=confidence, reverse=True), a stable sort, by insertion
RECURSIVE SortByConfidence(_)
InsertByConfidence(o, sorted) ==
    LET before == { i \in 1..Len(sorted) :
                      \A j \in 1..i : sorted[j].confidence >= o.confidence }
        k == Cardinality(before)
    IN  SubSeq(sorted, 1, k) \o <<o>> \o SubSeq(sorted, k + 1, Len(sorted))
SortByConfidence(opportunities) ==
    IF opportunities = <<>> THEN <<>>
    ELSE InsertByConfidence(
             opportunities[Len(opportunities)],
             SortByConfidence(SubSeq(opportunities, 1, Len(opportunities) - 1)))

\* line 359: opportunities[:5]
top_opportunities == 5

\* the investment threshold of line 346
investment_threshold == 10000

\* lines 319-359: the try block.  industry.lower() raises on a value that
\* is not a str, the comparison on a value that is not a number
business_opportunities_try(user_profile) ==
    LET industry == Get(user_profile, "industry", Str(<<>>))
        network_value == Get(user_profile, "networkValue", Num(0))
    IN  IF ~IsStr(industry) \/ ~IsNum(network_value) THEN Raise
        ELSE LET opportunities ==
                     (IF Contains(Lower(industry.s), s_technology)
                        THEN technology_opportunities ELSE <<>>) \o
                     (IF network_value.n > investment_threshold
                        THEN <<investment_opportunity>> ELSE <<>>)
                 sorted == SortByConfidence(opportunities)
             IN  Ok(SubSeq(sorted, 1, Min(top_opportunities, Len(sorted))))

\* predict_business_opportunities whose threshold test is >=
business_opportunities_inclusive(user_profile) ==
    LET r == business_opportunities_try(user_profile)
        industry == Get(user_profile, "industry", Str(<<>>))
        network_value == Get(user_profile, "networkValue", Num(0))
    IN  IF ~r.ok THEN Ok(<<>>)
        ELSE IF network_value.n = investment_threshold
          THEN Ok(SortByConfidence(r.v \o <<investment_opportunity>>))
        ELSE r

\* lines 314-363; except Exception: return []
predict_business_opportunities(user_profile) ==
    LET r == business_opportunities_try(user_profile)
    IN  IF r.ok THEN r ELSE Ok(<<>>)

\* lines 291-300: the fresh bundle; jitter is the draw of np.random.normal,
\* in thousandths
FreshTrends(industry, now, jitter) ==
    LET growth == calculate_industry_growth(industry)
        emerging == identify_emerging_trends(industry)
    IN  IF ~growth.ok \/ ~emerging.ok THEN Raise
        ELSE Ok([industryGrowth |-> growth.v,
                 emergingTrends |-> emerging.v,
                 competitorAnalysis |-> analyze_competitors,
                 investmentOpportunities |->
                     identify_investment_opportunities(industry),
                 marketDemand |-> forecast_market_demand,
                 priceOptimization |-> suggest_pricing_strategies,
                 lastUpdated |-> now,
                 confidence |-> 850 + jitter])

get_default_trends ==
    [industryGrowth |-> [rate |-> 50, trajectory |-> "stable"],
     emergingTrends |-> <<"Digital transformation">>,
     competitorAnalysis |-> <<>>,
     investmentOpportunities |-> <<>>,
     marketDemand |-> [short_term |-> "stable", long_term |-> "unknown"],
     confidence |-> 300]

\* the cache check with the comparison turned around
CacheValidInverted(cache, key, now) ==
    key \in DOMAIN cache /\ now - cache[key].timestamp > cache_expiry

\* the cache check that still serves an entry aged exactly cache_expiry
CacheValidInclusive(cache, key, now) ==
    key \in DOMAIN cache /\ now - cache[key].timestamp <= cache_expiry

\* lines 286-287: the cache holds a valid entry for the key
CacheValid(cache, key, now) ==
    key \in DOMAIN cache /\ now - cache[key].timestamp < cache_expiry

\* draws of the confidence jitter
Jitters == {0 - 20, 30}

\* the steps by which the clock advances, in hours
ClockSteps == {3}

\* the clock stops after this many steps
MaxTicks == 2


\* analyze_market_trends is called: lines 282-283
\* (observe: the observer records the cache as the call finds it)
TCall(p, req, observe) ==
    /\ t_pc[p] = "idle"
    /\ t_req' = [t_req EXCEPT ![p] = req]
    /\ t_key' = [t_key EXCEPT ![p] = cache_key(req.industry, req.location)]
    /\ t_now' = [t_now EXCEPT ![p] = clock]
    /\ t_snap' = [t_snap EXCEPT ![p] =
                      IF observe
                        THEN [cache |-> trends_cache, computed |-> computed]
                        ELSE Unset]
    /\ t_pc' = [t_pc EXCEPT ![p] = "check"]
    /\ UNCHANGED <<trends_cache, clock, computed, t_trends, t_ret>>

\* lines 286-287: the cache check
TCheck(p) ==
    /\ t_pc[p] = "check"
    /\ t_pc' = [t_pc EXCEPT ![p] =
                   IF CacheValid(trends_cache, t_key[p], t_now[p])
                     THEN "hit" ELSE "compute"]
    /\ UNCHANGED <<trends_cache, clock, computed, t_req, t_key, t_now,
                   t_trends, t_ret, t_snap>>

\* line 288: return the cached data
TReturnCached(p) ==
    /\ t_pc[p] = "hit"
    /\ t_ret' = [t_ret EXCEPT ![p] = trends_cache[t_key[p]].data]
    /\ t_pc' = [t_pc EXCEPT ![p] = "done"]
    /\ UNCHANGED <<trends_cache, clock, computed, t_req, t_key, t_now,
                   t_trends, t_snap>>

\* lines 291-300: build the fresh bundle
TCompute(p) ==
    /\ t_pc[p] = "compute"
    /\ \E jitter \in Jitters :
         LET r == FreshTrends(t_req[p].industry, t_now[p], jitter) IN
         /\ r.ok
         /\ t_trends' = [t_trends EXCEPT ![p] = r.v]
    /\ computed' = computed + 1
    /\ t_pc' = [t_pc EXCEPT ![p] = "store"]
    /\ UNCHANGED <<trends_cache, clock, t_req, t_key, t_now, t_ret, t_snap>>

\* TFail that also stores the default bundle under the key
TFailCachesDefault(p) ==
    /\ t_pc[p] = "compute"
    /\ ~FreshTrends(t_req[p].industry, t_now[p], 0).ok
    /\ t_ret' = [t_ret EXCEPT ![p] = get_default_trends]
    /\ trends_cache' = (t_key[p] :> [data |-> get_default_trends,
                                      timestamp |-> t_now[p]])
                          @@ trends_cache
    /\ t_pc' = [t_pc EXCEPT ![p] = "done"]
    /\ UNCHANGED <<clock, computed, t_req, t_key, t_now, t_trends, t_snap>>

\* lines 310-312: building the bundle raised; return the default bundle
TFail(p) ==
    /\ t_pc[p] = "compute"
    /\ ~FreshTrends(t_req[p].industry, t_now[p], 0).ok
    /\ t_ret' = [t_ret EXCEPT ![p] = get_default_trends]
    /\ t_pc' = [t_pc EXCEPT ![p] = "done"]
    /\ UNCHANGED <<trends_cache, clock, computed, t_req, t_key, t_now,
                   t_trends, t_snap>>

\* the entry written by lines 303-306
CacheEntry(trends, now) == [data |-> trends, timestamp |-> now]

\* lines 303-308: store the bundle under the key and return it
TStore(p) ==
    /\ t_pc[p] = "store"
    /\ trends_cache' = (t_key[p] :> CacheEntry(t_trends[p], t_now[p]))
                         @@ trends_cache
    /\ t_ret' = [t_ret EXCEPT ![p] = t_trends[p]]
    /\ t_pc' = [t_pc EXCEPT ![p] = "done"]
    /\ UNCHANGED <<clock, computed, t_req, t_key, t_now, t_trends, t_snap>>

\* the caller has the result; the thread serves the next request
TFinish(p) ==
    /\ t_pc[p] = "done"
    /\ t_pc' = [t_pc EXCEPT ![p] = "idle"]
    /\ t_req' = [t_req EXCEPT ![p] = Unset]
    /\ t_key' = [t_key EXCEPT ![p] = Unset]
    /\ t_now' = [t_now EXCEPT ![p] = 0]
    /\ t_trends' = [t_trends EXCEPT ![p] = Unset]
    /\ t_ret' = [t_ret EXCEPT ![p] = Unset]
    /\ t_snap' = [t_snap EXCEPT ![p] = Unset]
    /\ UNCHANGED <<trends_cache, clock, computed>>

\* time passes
Tick ==
    /\ \E p \in Threads : t_pc[p] # "off"
    /\ \E d \in ClockSteps :
         /\ clock + d <= MaxTicks * d
         /\ clock' = clock + d
    /\ UNCHANGED <<trends_cache, computed, t_pc, t_req, t_key, t_now,
                   t_trends, t_ret, t_snap>>

\* the arguments of the requests
s_a == <<"a">>
s_b == <<"b">>
TrendRequests ==
    { [industry |-> Str(s_technology), location |-> None],
      [industry |-> Str(s_technology), location |-> Num(7)],
      [industry |-> Str(s_a), location |-> Str(s_b)],
      [industry |-> Str(<<"M", "A", "R", "U+212A", "E", "T", "I", "N", "G">>),
       location |-> None],
      [industry |-> None, location |-> None] }
FewTrendRequests ==
    { [industry |-> Str(s_technology), location |-> None],
      [industry |-> None, location |-> None] }

\* requests whose industry or location contains the separator of the key,
\* or whose location is the text 'None'
s_technology_x ==
    <<"t", "e", "c", "h", "n", "o", "l", "o", "g", "y", "_", "x">>
s_x_None == <<"x", "_", "N", "o", "n", "e">>
KeyRequests ==
    { [industry |-> Str(s_technology), location |-> None],
      [industry |-> Str(s_technology), location |-> Str(s_None)],
      [industry |-> Str(s_technology_x), location |-> None],
      [industry |-> Str(s_technology), location |-> Str(s_x_None)],
      [industry |-> None, location |-> None] }

TrendsIdle(pc0) ==
    /\ trends_cache = <<>>
    /\ clock = 0
    /\ computed = 0
    /\ t_pc = [p \in Threads |-> pc0]
    /\ t_req = [p \in Threads |-> Unset]
    /\ t_key = [p \in Threads |-> Unset]
    /\ t_now = [p \in Threads |-> 0]
    /\ t_trends = [p \in Threads |-> Unset]
    /\ t_ret = [p \in Threads |-> Unset]
    /\ t_snap = [p \in Threads |-> Unset]


-----------------------------------------------------------------------------
(* DealSuccessPredictor *)

s_urgent == <<"u", "r", "g", "e", "n", "t">>

\* lines 474-480: the five features, exact, in units of 1/3000000 (0.5 is
\* 1500000, so that value/1000000 and duration_months/12 lose nothing).
\* len() raises on a value that is not a str, the divisions on a value
\* that is not a number
extract_deal_features(deal_data) ==
    LET value == Get(deal_data, "value", Num(10000))
        description == Get(deal_data, "description", Str(<<>>))
        match_score == Get(deal_data, "match_score", Num(50))
        duration_months == Get(deal_data, "duration_months", Num(6))
    IN  IF ~IsNum(value) \/ ~IsStr(description) \/ ~IsNum(match_score) \/
           ~IsNum(duration_months)
          THEN Raise
        ELSE Ok(<< value.n * 3,
                   Len(description.s) * 3000,
                   match_score.n * 30000,
                   IF Contains(Lower(description.s), s_urgent) THEN 3000000 ELSE 0,
                   duration_months.n * 250000 >>)

factor_names ==
    <<"Deal Value", "Description Detail", "Partner Compatibility", "Urgency",
      "Timeline">>
feature_importance == <<200, 100, 400, 100, 200>>

\* sorted(..., key=importance, reverse=True): a stable sort, by insertion
RECURSIVE SortByImportance(_)
InsertByImportance(f, sorted) ==
    LET before == { i \in 1..Len(sorted) :
                      \A j \in 1..i : sorted[j].importance >= f.importance }
        k == Cardinality(before)
    IN  SubSeq(sorted, 1, k) \o <<f>> \o SubSeq(sorted, k + 1, Len(sorted))
SortByImportance(factors) ==
    IF factors = <<>> THEN <<>>
    ELSE InsertByImportance(factors[Len(factors)],
                            SortByImportance(SubSeq(factors, 1, Len(factors) - 1)))

\* identify_key_factors that tags a value of exactly 0.5 as positive
identify_key_factors_inclusive(features) ==
    LET factor(i) == [factor |-> factor_names[i],
                      importance |-> feature_importance[i],
                      current_value |-> features[i],
                      impact |-> IF features[i] >= 1500000 THEN "positive"
                                 ELSE "negative"]
        all == [i \in 1..5 |-> factor(i)]
        Important(f) == f.importance > 150
    IN  SortByImportance(SelectSeq(all, Important))

\* lines 512-522
identify_key_factors(features) ==
    LET factor(i) == [factor |-> factor_names[i],
                      importance |-> feature_importance[i],
                      current_value |-> features[i],
                      impact |-> IF features[i] > 1500000 THEN "positive"
                                 ELSE "negative"]
        all == [i \in 1..5 |-> factor(i)]
        Important(f) == f.importance > 150
    IN  SortByImportance(SelectSeq(all, Important))

\* generate_recommendations whose probability test is <=
generate_recommendations_inclusive(features, success_prob) ==
    (IF features[3] < 1800000
       THEN <<"Consider improving partner alignment through preliminary meetings">>
       ELSE <<>>) \o
    (IF features[2] < 900000
       THEN <<"Provide more detailed deal documentation to build trust">>
       ELSE <<>>) \o
    (IF success_prob <= 500
       THEN <<"Consider risk mitigation strategies or deal restructuring">>
       ELSE <<>>) \o
    (IF features[1] > 2400000
       THEN <<"Implement milestone-based payment structure for large deals">>
       ELSE <<>>)

\* lines 526-540; success_prob is the clamped estimate, in thousandths
generate_recommendations(features, success_prob) ==
    (IF features[3] < 1800000
       THEN <<"Consider improving partner alignment through preliminary meetings">>
       ELSE <<>>) \o
    (IF features[2] < 900000
       THEN <<"Provide more detailed deal documentation to build trust">>
       ELSE <<>>) \o
    (IF success_prob < 500
       THEN <<"Consider risk mitigation strategies or deal restructuring">>
       ELSE <<>>) \o
    (IF features[1] > 2400000
       THEN <<"Implement milestone-based payment structure for large deals">>
       ELSE <<>>)

\* DealPrediction without the clamp of line 454
DealPredictionUnclamped(features, estimate) ==
    [success_probability |-> estimate * 100,
     confidence |-> 820,
     key_factors |-> identify_key_factors(features),
     recommendations |-> generate_recommendations(features, estimate)]

\* lines 453-461: the result built from what model.predict returned;
\* success_probability is in thousandths of a point
DealPrediction(features, estimate) ==
    LET success_probability == Max(0, Min(1000, estimate)) IN
    [success_probability |-> success_probability * 100,
     confidence |-> 820,
     key_factors |-> identify_key_factors(features),
     recommendations |-> generate_recommendations(features, success_probability)]

\* lines 465-470
DealDefault ==
    [success_probability |-> 50000, confidence |-> 300, key_factors |-> <<>>,
     recommendations |-> <<>>]

\* values model.predict can return, in thousandths
EstimatorOutputs == {0 - 150, 0, 499, 500, 1000, 1200}

\* the number of calls a run makes
MaxCalls == 3

\* predict_deal_success is called: line 445
DCall(p, deal) ==
    /\ d_pc[p] = "idle"
    /\ d_calls < MaxCalls
    /\ d_calls' = d_calls + 1
    /\ d_no' = [d_no EXCEPT ![p] = d_calls + 1]
    /\ d_deal' = [d_deal EXCEPT ![p] = deal]
    /\ LET r == extract_deal_features(deal) IN
         IF r.ok
           THEN /\ d_features' = [d_features EXCEPT ![p] = r.v]
                /\ d_pc' = [d_pc EXCEPT ![p] = "check"]
           ELSE /\ d_features' = d_features
                /\ d_pc' = [d_pc EXCEPT ![p] = "except"]
    /\ d_first_ok' = IF d_first_ok = 0 /\ extract_deal_features(deal).ok
                       THEN d_calls + 1 ELSE d_first_ok
    /\ UNCHANGED <<is_trained, fitting, trainings, d_trained_in, d_estimate,
                   d_raced, d_ret>>

\* line 447: if not self.is_trained
DCheck(p) ==
    /\ d_pc[p] = "check"
    /\ d_pc' = [d_pc EXCEPT ![p] = IF is_trained THEN "predict" ELSE "train"]
    /\ UNCHANGED <<is_trained, fitting, trainings, d_calls, d_trained_in, d_first_ok,
                   d_no, d_deal, d_features, d_estimate, d_raced, d_ret>>

\* lines 485-503: _train_model builds the data and enters model.fit
DTrain(p) ==
    /\ d_pc[p] = "train"
    /\ trainings' = trainings + 1
    /\ fitting' = fitting + 1
    /\ d_trained_in' = IF d_trained_in = 0 THEN d_no[p] ELSE d_trained_in
    /\ d_pc' = [d_pc EXCEPT ![p] = "fit"]
    /\ UNCHANGED <<is_trained, d_calls, d_first_ok, d_no, d_deal, d_features,
                   d_estimate, d_raced, d_ret>>

\* line 503: model.fit returns
DFitted(p) ==
    /\ d_pc[p] = "fit"
    /\ fitting' = fitting - 1
    /\ d_pc' = [d_pc EXCEPT ![p] = "fitted"]
    /\ UNCHANGED <<is_trained, trainings, d_calls, d_trained_in, d_first_ok,
                   d_no, d_deal, d_features, d_estimate, d_raced, d_ret>>

\* _train_model that does not set is_trained
DTrainedFlagNotSet(p) ==
    /\ d_pc[p] = "fitted"
    /\ d_pc' = [d_pc EXCEPT ![p] = "predict"]
    /\ UNCHANGED <<is_trained, fitting, trainings, d_calls, d_trained_in,
                   d_first_ok, d_no, d_deal, d_features, d_estimate, d_raced,
                   d_ret>>

\* lines 504-505: is_trained is set and _train_model returns
DTrained(p) ==
    /\ d_pc[p] = "fitted"
    /\ is_trained' = TRUE
    /\ d_pc' = [d_pc EXCEPT ![p] = "predict"]
    /\ UNCHANGED <<fitting, trainings, d_calls, d_trained_in, d_first_ok,
                   d_no, d_deal, d_features, d_estimate, d_raced, d_ret>>

\* lines 451-461: model.predict and the result
DPredict(p) ==
    /\ d_pc[p] = "predict"
    /\ \E estimate \in EstimatorOutputs :
         /\ d_estimate' = [d_estimate EXCEPT ![p] = estimate]
         /\ d_ret' = [d_ret EXCEPT ![p] = DealPrediction(d_features[p], estimate)]
    /\ d_raced' = [d_raced EXCEPT ![p] = fitting > 0]
    /\ d_pc' = [d_pc EXCEPT ![p] = "done"]
    /\ UNCHANGED <<is_trained, fitting, trainings, d_calls, d_trained_in, d_first_ok,
                   d_no, d_deal, d_features>>

\* line 451 while another thread is inside model.fit on the same estimator:
\* the estimator is being rebuilt and model.predict can raise
DPredictRaises(p) ==
    /\ d_pc[p] = "predict"
    /\ fitting > 0
    /\ d_raced' = [d_raced EXCEPT ![p] = TRUE]
    /\ d_pc' = [d_pc EXCEPT ![p] = "except"]
    /\ UNCHANGED <<is_trained, fitting, trainings, d_calls, d_trained_in, d_first_ok,
                   d_no, d_deal, d_features, d_estimate, d_ret>>

\* DExcept that returns a probability of 0 for a failed call
DExceptZeroProbability(p) ==
    /\ d_pc[p] = "except"
    /\ d_ret' = [d_ret EXCEPT ![p] =
                    [DealDefault EXCEPT !.success_probability = 0]]
    /\ d_pc' = [d_pc EXCEPT ![p] = "done"]
    /\ UNCHANGED <<is_trained, fitting, trainings, d_calls, d_trained_in, d_first_ok,
                   d_no, d_deal, d_features, d_estimate, d_raced>>

\* lines 463-470: except Exception
DExcept(p) ==
    /\ d_pc[p] = "except"
    /\ d_ret' = [d_ret EXCEPT ![p] = DealDefault]
    /\ d_pc' = [d_pc EXCEPT ![p] = "done"]
    /\ UNCHANGED <<is_trained, fitting, trainings, d_calls, d_trained_in, d_first_ok,
                   d_no, d_deal, d_features, d_estimate, d_raced>>

\* the caller has the result; the thread serves the next request
DFinish(p) ==
    /\ d_pc[p] = "done"
    /\ d_pc' = [d_pc EXCEPT ![p] = "idle"]
    /\ d_no' = [d_no EXCEPT ![p] = 0]
    /\ d_deal' = [d_deal EXCEPT ![p] = Unset]
    /\ d_features' = [d_features EXCEPT ![p] = Unset]
    /\ d_estimate' = [d_estimate EXCEPT ![p] = 0]
    /\ d_raced' = [d_raced EXCEPT ![p] = FALSE]
    /\ d_ret' = [d_ret EXCEPT ![p] = Unset]
    /\ UNCHANGED <<is_trained, fitting, trainings, d_calls, d_trained_in,
                   d_first_ok>>

\* deal records
s_Urgent_deal ==
    <<"U", "r", "g", "e", "n", "t", " ", "d", "e", "a", "l">>
s_long == [i \in 1..300 |-> "x"]

\* The route answers 400 to a record without keys (lines 697-698), so
\* predict_deal_success is not called with it
Deals ==
    { v @@ d @@ m @@ t :
        v \in Opt("value", {Num(800000), Num(800001)}),
        d \in Opt("description", {Str(s_Urgent_deal), Str(s_long)}),
        m \in Opt("match_score", {Num(59), Num(60)}),
        t \in Opt("duration_months", {Num(6), Num(7)}) } \ {<<>>}
MalformedDeals ==
    { [description |-> None], [value |-> Str(s_a), match_score |-> Num(85)] }
FewDeals ==
    { [value |-> Num(100000), description |-> Str(s_Urgent_deal),
       match_score |-> Num(85), duration_months |-> Num(3)],
      [description |-> None] }

DealIdle(pc0) ==
    /\ is_trained = FALSE
    /\ fitting = 0
    /\ trainings = 0
    /\ d_calls = 0
    /\ d_trained_in = 0
    /\ d_first_ok = 0
    /\ d_pc = [p \in Threads |-> pc0]
    /\ d_no = [p \in Threads |-> 0]
    /\ d_deal = [p \in Threads |-> Unset]
    /\ d_features = [p \in Threads |-> Unset]
    /\ d_estimate = [p \in Threads |-> 0]
    /\ d_raced = [p \in Threads |-> FALSE]
    /\ d_ret = [p \in Threads |-> Unset]


-----------------------------------------------------------------------------
(* The matching engine serves one request *)

MatchOff ==
    /\ m_pc = "off"
    /\ user1 = Unset
    /\ user2 = Unset
    /\ context = NoContext
    /\ m_result = Unset
    /\ m_score = Unset
    /\ textblob = <<>>

\* calculate_match_score or predict_meeting_success is about to be called
\* with these arguments
MatchRequest ==
    /\ m_result = Unset
    /\ m_score = Unset
    /\ \/ /\ m_pc = "match"
          /\ user1 \in MatchProfiles \cup MalformedProfiles
          /\ user2 \in MatchProfiles \cup MalformedProfiles
          /\ context = NoContext
       \/ /\ m_pc = "meeting"
          /\ user1 \in MeetingProfiles
          /\ user2 \in MeetingProfiles
          /\ context \in Contexts
    /\ textblob \in TextBlobs(user1, user2)

\* lines 58-106: calculate_match_score(user1, user2) runs and returns
Match ==
    /\ m_pc = "match"
    /\ m_result' = calculate_match_score(user1, user2)
    /\ m_pc' = "matched"
    /\ UNCHANGED <<user1, user2, context, m_score, textblob, t_vars, d_vars>>

\* lines 108-141: predict_meeting_success(user1, user2, context) runs and
\* returns
Meeting ==
    /\ m_pc = "meeting"
    /\ m_result' = predict_meeting_success(user1, user2, context)
    /\ m_pc' = "predicted"
    /\ UNCHANGED <<user1, user2, context, m_score, textblob, t_vars, d_vars>>

\* profiles over the industries of the compatibility matrix and locations
\* that share words or parts of words
s_par == <<"p", "a", "r">>
WideIndustries ==
    {Str(s_technology), Str(s_finance), Str(s_healthcare), Str(s_marketing),
     Str(s_consulting), Str(s_retail), Str(s_Finance), Str(s_other)}
WideLocations == {Str(s_Paris), Str(s_paris_fr), Str(s_par)}
WideProfiles ==
    { i @@ t @@ n @@ l :
        i \in Opt("industry", WideIndustries),
        t \in Opt("title", {Str(s_CEO)}),
        n \in Opt("networkValue", {Num(0), Num(5000)}),
        l \in Opt("location", WideLocations) }

\* calculate_match_score is about to be called with two of these profiles
WideMatchRequest ==
    /\ m_pc = "match"
    /\ user1 \in WideProfiles
    /\ user2 \in WideProfiles
    /\ context = NoContext
    /\ m_result = Unset
    /\ m_score = Unset
    /\ textblob \in TextBlobs(user1, user2)

\* profiles whose pairs reach the lowest and the highest sub-scores
s_ml == <<"m", "l">>
RangeProfiles ==
    { i @@ t @@ b @@ n @@ l :
        i \in Opt("industry", {Str(s_technology), Str(s_other)}),
        t \in Opt("title", {Str(s_CEO), Str(s_Manager)}),
        b \in Opt("bio", {Str(s_ai), Str(s_ml)}),
        n \in Opt("networkValue", {Num(0), Num(5), Num(4000)}),
        l \in Opt("location", {Str(s_Paris), Str(s_Rome)}) }

\* calculate_match_score is about to be called with two of these profiles
RangeMatchRequest ==
    /\ m_pc = "match"
    /\ user1 \in RangeProfiles
    /\ user2 \in RangeProfiles
    /\ context = NoContext
    /\ m_result = Unset
    /\ m_score = Unset
    /\ textblob \in TextBlobs(user1, user2)

\* profiles given to predict_business_opportunities
s_FinTechnology ==
    <<"F", "i", "n", "T", "e", "c", "h", "n", "o", "l", "o", "g", "y">>
OpportunityProfiles ==
    { i @@ n @@ b :
        i \in Opt("industry", {Str(s_technology), Str(s_FinTechnology),
                               Str(s_Finance), None}),
        n \in Opt("networkValue", {Num(0), Num(10000), Num(10001), Num(50000),
                                   Str(s_ai), None}),
        b \in Opt("bio", {Str(s_ai)}) }

\* predict_business_opportunities is about to be called with this profile
OpportunityRequest ==
    /\ m_pc = "opportunities"
    /\ user1 \in OpportunityProfiles
    /\ user2 = Unset
    /\ context = NoContext
    /\ m_result = Unset
    /\ m_score = Unset
    /\ textblob = <<>>

\* lines 314-363: predict_business_opportunities(user_profile) runs and
\* returns
Opportunities ==
    /\ m_pc = "opportunities"
    /\ m_result' = predict_business_opportunities(user1)
    /\ m_pc' = "listed"
    /\ UNCHANGED <<user1, user2, context, m_score, textblob, t_vars, d_vars>>

-----------------------------------------------------------------------------
(* The /match route *)

\* The float the route holds for a score of real value x: the double
\* nearest to x (side 0) or a double just below (-1) or just above (1) it,
\* as the rounding of the additions and products of lines 93-100 leaves it
\* ({'industry': 'technology', 'title': 'Manager', 'bio': 'x y',
\* 'networkValue': 26, 'location': 'Paris'} with {'industry': 'technology',
\* 'title': 'Manager', 'networkValue': 48, 'location': 'par'} has the real
\* value 60 and the float 59.999999999999986).  The side is kept at the
\* values the route compares the score with; elsewhere no comparison of
\* the route tells the three floats apart.
RouteThresholds == {40000, 60000, 70000, 75000, 80000}
Floats(x) ==
    { [v |-> x, side |-> e] :
        e \in IF x.d = 1 /\ x.n \in RouteThresholds THEN {0 - 1, 0, 1}
              ELSE {0} }

\* match_score >= t and match_score > t for a float and a whole number t of
\* thousandths of a point
AtLeast(match_score, t) ==
    \/ FLess(Whole(t), match_score.v)
    \/ match_score.v = Whole(t) /\ match_score.side >= 0
Above(match_score, t) ==
    \/ FLess(Whole(t), match_score.v)
    \/ match_score.v = Whole(t) /\ match_score.side > 0

\* round(match_score, 2): thousandths of a point to hundredths.  A score
\* half-way between two hundredths is a float next to that value, on either
\* side of it, and rounds to either neighbour
Round2(match_score) ==
    LET x == match_score.v
        q == x.n \div (10 * x.d)
        r == x.n % (10 * x.d)
    IN  IF r < 5 * x.d THEN {q}
        ELSE IF r > 5 * x.d THEN {q + 1}
        ELSE {q, q + 1}

\* lines 617-623 with strict comparisons
compatibility_level_strict(match_score) ==
    IF Above(match_score, 80000) THEN "Excellent"
    ELSE IF Above(match_score, 70000) THEN "Very Good"
    ELSE IF Above(match_score, 60000) THEN "Good"
    ELSE IF Above(match_score, 40000) THEN "Fair"
    ELSE "Poor"

\* lines 617-623: the label of a score in thousandths of a point
compatibility_level(match_score) ==
    IF AtLeast(match_score, 80000) THEN "Excellent"
    ELSE IF AtLeast(match_score, 70000) THEN "Very Good"
    ELSE IF AtLeast(match_score, 60000) THEN "Good"
    ELSE IF AtLeast(match_score, 40000) THEN "Fair"
    ELSE "Poor"

\* lines 624-629
recommendation(match_score) ==
    IF AtLeast(match_score, 75000) THEN "Highly recommended connection"
    ELSE IF AtLeast(match_score, 60000) THEN "Promising networking opportunity"
    ELSE IF AtLeast(match_score, 40000) THEN "Consider context before connecting"
    ELSE "Low compatibility - proceed with caution"

\* request.get_json(): a JSON object (a dict), or a body that is no object
NoBody == [json |-> FALSE, v |-> <<>>]
JsonBody(d) == [json |-> TRUE, v |-> d]

\* lines 601-634: the route on the body data, match_score being the float
\* that calculate_match_score returned (unused when the route does not call
\* it) and the client seeing `rounded` as the rounded score.  A body that
\* is no object has no .get: status 500
calculate_match(data, match_score, rounded) ==
    IF data = NoBody
      THEN [status |-> 500, error |-> "Internal server error"]
    ELSE LET u1 == Get(data.v, "user1", <<>>)
             u2 == Get(data.v, "user2", <<>>)
         IN  IF DOMAIN u1 = {} \/ DOMAIN u2 = {}
               THEN [status |-> 400,
                     error |-> "Both user1 and user2 data required"]
             ELSE [status |-> 200,
                   success |-> TRUE,
                   match_score |-> rounded,
                   compatibility_level |-> compatibility_level(match_score),
                   recommendation |-> recommendation(match_score)]

\* profiles whose scores lie on the boundaries of the labels, next to them
\* and between them
s_ai_x_y_z == <<"a", "i", " ", "x", " ", "y", " ", "z">>
s_x_y == <<"x", " ", "y">>
RouteProfiles ==
    { ("industry" :> Str(s_finance)) @@ ("title" :> Str(s_Manager)) @@
        ("bio" :> Str(s_ai)) @@ ("networkValue" :> Num(200)) @@
        ("location" :> Str(s_Rome)),
      ("industry" :> Str(s_finance)) @@ ("bio" :> Str(s_ai)) @@
        ("networkValue" :> Num(400)) @@ ("location" :> Str(s_Rome)),
      ("industry" :> Str(s_technology)) @@ ("bio" :> Str(s_AI_ml)) @@
        ("networkValue" :> Num(800)) @@ ("location" :> Str(s_paris_fr)),
      ("industry" :> Str(s_technology)) @@ ("bio" :> Str(s_AI_ml)) @@
        ("networkValue" :> Num(433)) @@ ("location" :> Str(s_Paris)),
      ("industry" :> Str(s_technology)) @@ ("title" :> Str(s_Manager)) @@
        ("networkValue" :> Num(800)) @@ ("location" :> Str(s_Paris)),
      ("industry" :> Str(s_finance)) @@ ("networkValue" :> Num(733)) @@
        ("location" :> Str(s_Paris)),
      ("industry" :> Str(s_finance)) @@ ("title" :> Str(s_Manager)) @@
        ("bio" :> Str(s_ai)) @@ ("networkValue" :> Num(400)),
      ("industry" :> Str(s_finance)) @@ ("bio" :> Str(s_ai)) @@
        ("networkValue" :> Num(200)),
      ("industry" :> Str(s_finance)) @@ ("bio" :> Str(s_ai)) @@
        ("networkValue" :> Num(800)),
      ("industry" :> Str(s_technology)) @@ ("bio" :> Str(s_ai)) @@
        ("networkValue" :> Num(333)),
      ("industry" :> Str(s_finance)) @@ ("title" :> Str(s_CEO)) @@
        ("networkValue" :> Num(200)),
      ("industry" :> Str(s_finance)) @@ ("title" :> Str(s_Manager)) @@
        ("networkValue" :> Num(400)),
      ("industry" :> Str(s_technology)) @@ ("title" :> Str(s_CEO)) @@
        ("networkValue" :> Num(800)),
      ("industry" :> Str(s_technology)) @@ ("networkValue" :> Num(433)),
      ("bio" :> Str(s_ai)) @@ ("location" :> Str(s_Paris)),
      ("bio" :> Str(s_ai_x_y_z)) @@ ("location" :> Str(s_Rome)),
      ("title" :> Str(s_CEO)) @@ ("networkValue" :> Num(33)) @@
        ("location" :> Str(s_Paris)),
      ("networkValue" :> Num(800)) @@ ("location" :> Str(s_Rome)),
      ("networkValue" :> Num(125)) @@ ("location" :> Str(s_Paris)),
      ("networkValue" :> Num(600)) @@ ("location" :> Str(s_Paris)),
      ("networkValue" :> Num(488)) @@ ("location" :> Str(s_Paris)),
      ("networkValue" :> Num(900)) @@ ("location" :> Str(s_paris_fr)),
      ("industry" :> Str(s_technology)) @@ ("title" :> Str(s_Manager)) @@
        ("bio" :> Str(s_x_y)) @@ ("networkValue" :> Num(26)) @@
        ("location" :> Str(s_Paris)),
      ("industry" :> Str(s_technology)) @@ ("title" :> Str(s_Manager)) @@
        ("networkValue" :> Num(48)) @@ ("location" :> Str(s_par)),
      ("networkValue" :> Num(0)) }

\* the bodies served: an object with or without the keys user1 and user2,
\* each a profile or the empty object, or a body that is no object
RouteBodies ==
    {NoBody} \cup
    { JsonBody(b[1] @@ b[2]) :
        b \in Opt("user1", RouteProfiles \cup {<<>>}) \X
              Opt("user2", RouteProfiles \cup {<<>>}) }

\* POST /match is about to be served with this body
RouteRequest ==
    /\ m_pc = "route"
    /\ user1 \in RouteBodies
    /\ user2 = Unset
    /\ context = NoContext
    /\ m_result = Unset
    /\ m_score = Unset
    /\ textblob \in TextBlobs(Get(user1.v, "user1", <<>>),
                              Get(user1.v, "user2", <<>>))

\* lines 601-634: the route runs and answers
MatchRoute ==
    /\ m_pc = "route"
    /\ IF user1 = NoBody \/ DOMAIN Get(user1.v, "user1", <<>>) = {}
                         \/ DOMAIN Get(user1.v, "user2", <<>>) = {}
         THEN /\ m_result' = calculate_match(user1, Unset, 0)
              /\ m_score' = m_score
         ELSE \E match_score \in
                    Floats(calculate_match_score(Get(user1.v, "user1", <<>>),
                                                 Get(user1.v, "user2", <<>>)).v) :
                \E rounded \in Round2(match_score) :
                   /\ m_result' = calculate_match(user1, match_score, rounded)
                   /\ m_score' = match_score
    /\ m_pc' = "responded"
    /\ UNCHANGED <<user1, user2, context, textblob, t_vars, d_vars>>

-----------------------------------------------------------------------------
(* The helpers of the matching engine, called on their own *)

s_Technology == <<"T", "e", "c", "h", "n", "o", "l", "o", "g", "y">>
s_Director == <<"D", "i", "r", "e", "c", "t", "o", "r">>
s_Engineer == <<"E", "n", "g", "i", "n", "e", "e", "r">>
s_Senior_Engineer ==
    <<"S", "e", "n", "i", "o", "r", " ", "E", "n", "g", "i", "n", "e", "e", "r">>
s_Senior_Manager ==
    <<"S", "e", "n", "i", "o", "r", " ", "M", "a", "n", "a", "g", "e", "r">>
s_Vice_President ==
    <<"V", "i", "c", "e", " ", "P", "r", "e", "s", "i", "d", "e", "n", "t">>
s_VP_Sales == <<"V", "P", " ", "S", "a", "l", "e", "s">>
s_Team_Leader == <<"T", "e", "a", "m", " ", "L", "e", "a", "d", "e", "r">>

\* the arguments of the helpers: texts, the empty text, None and a number
s_a_tab_paris == <<"a", "\t", "p", "a", "r", "i", "s">>
\* 'a' + chr(11) + 'paris': a vertical tab between the words
s_a_vt_paris == <<"a", "", "p", "a", "r", "i", "s">>
s_MUNCHEN == <<"M", "Ü", "N", "C", "H", "E", "N">>
s_munchen == <<"m", "ü", "n", "c", "h", "e", "n">>
\* 'a' + chr(0x2003) + 'paris': an em space between the words
s_a_em_paris == <<"a", "U+2003", "p", "a", "r", "i", "s">>
\* the Greek word for street, in capitals and in small letters: its last
\* letter is a sigma, lowered to the final sigma chr(0x3C2)
s_ODOS == <<"U+039F", "U+0394", "U+039F", "U+03A3">>
s_odos == <<"U+03BF", "U+03B4", "U+03BF", "U+03C2">>
HelperLocations ==
    {Str(<<>>), Str(s_Paris), Str(s_paris_fr), Str(s_par), Str(s_Rome),
     Str(s_a_tab_paris), Str(s_a_vt_paris), Str(s_MUNCHEN), Str(s_munchen),
     Str(s_a_em_paris), Str(s_ODOS), Str(s_odos), None, Num(7)}
HelperTitles ==
    {Str(<<>>), Str(s_CEO), Str(s_Director), Str(s_Manager),
     Str(s_Senior_Engineer), Str(s_Engineer), Str(s_Senior_Manager),
     Str(s_Vice_President), Str(s_VP_Sales), Str(s_Team_Leader), None}
\* 'MARKETING' written with the Kelvin sign chr(0x212A), which lower()
\* turns into 'k', and 'FINANCE' written with the dotted capital I
\* chr(0x130), which lower() turns into 'i' and a combining dot
s_MARKETING_kelvin == <<"M", "A", "R", "U+212A", "E", "T", "I", "N", "G">>
s_FINANCE_dotted == <<"F", "U+0130", "N", "A", "N", "C", "E">>
HelperIndustries ==
    WideIndustries \cup
    {Str(<<>>), Str(s_Technology), Str(s_real_estate), Str(s_media),
     Str(s_MARKETING_kelvin), Str(s_FINANCE_dotted), None}

\* a helper is about to be called with these arguments
HelperRequest ==
    /\ context = NoContext
    /\ m_result = Unset
    /\ m_score = Unset
    /\ textblob = <<>>
    /\ \/ /\ m_pc = "location"
          /\ user1 \in HelperLocations
          /\ user2 \in HelperLocations
       \/ /\ m_pc = "seniority"
          /\ user1 \in HelperTitles
          /\ user2 = Unset
       \/ /\ m_pc = "title"
          /\ user1 \in HelperTitles
          /\ user2 \in HelperTitles
       \/ /\ m_pc = "industry"
          /\ user1 \in HelperIndustries
          /\ user2 \in HelperIndustries

\* lines 222-233: _calculate_location_proximity(loc1, loc2) runs and returns
LocationProximity ==
    /\ m_pc = "location"
    /\ m_result' = calculate_location_proximity(user1, user2)
    /\ m_pc' = "located"
    /\ UNCHANGED <<user1, user2, context, m_score, textblob, t_vars, d_vars>>

\* lines 235-248: _extract_seniority_level(title) runs and returns
SeniorityLevel ==
    /\ m_pc = "seniority"
    /\ m_result' = extract_seniority_level(user1)
    /\ m_pc' = "ranked"
    /\ UNCHANGED <<user1, user2, context, m_score, textblob, t_vars, d_vars>>

\* lines 173-185: _calculate_title_synergy(title1, title2) runs and returns
TitleSynergy ==
    /\ m_pc = "title"
    /\ m_result' = calculate_title_synergy(user1, user2)
    /\ m_pc' = "titled"
    /\ UNCHANGED <<user1, user2, context, m_score, textblob, t_vars, d_vars>>

\* lines 158-171: _calculate_industry_compatibility(industry1, industry2)
\* runs and returns
IndustryCompatibility ==
    /\ m_pc = "industry"
    /\ m_result' = calculate_industry_compatibility(user1, user2)
    /\ m_pc' = "compared"
    /\ UNCHANGED <<user1, user2, context, m_score, textblob, t_vars, d_vars>>

NextHelpers ==
    LocationProximity \/ SeniorityLevel \/ TitleSynergy \/ IndustryCompatibility

-----------------------------------------------------------------------------
(* Specifications.  A run exercises one component; the others are off. *)

InitMatch == MatchRequest /\ TrendsIdle("off") /\ DealIdle("off")
InitTrends == MatchOff /\ TrendsIdle("idle") /\ DealIdle("off")
InitDeal == MatchOff /\ TrendsIdle("off") /\ DealIdle("idle")

InitMatchWide == WideMatchRequest /\ TrendsIdle("off") /\ DealIdle("off")
InitOpportunities == OpportunityRequest /\ TrendsIdle("off") /\ DealIdle("off")
InitMatchRoute == RouteRequest /\ TrendsIdle("off") /\ DealIdle("off")
InitMatchRange == RangeMatchRequest /\ TrendsIdle("off") /\ DealIdle("off")
InitHelpers == HelperRequest /\ TrendsIdle("off") /\ DealIdle("off")

NoTrendsCall == \A q \in Threads : t_pc[q] = "idle"
NoDealCall == \A q \in Threads : d_pc[q] = "idle"

\* the steps of a call of analyze_market_trends by thread p
TrendsSteps(p) ==
    \/ TCheck(p)
    \/ TReturnCached(p)
    \/ TCompute(p)
    \/ TFail(p)
    \/ TStore(p)
    \/ TFinish(p)

\* the steps of a call of predict_deal_success by thread p
DealSteps(p) ==
    \/ DCheck(p)
    \/ DTrain(p)
    \/ DFitted(p)
    \/ DTrained(p)
    \/ DPredict(p)
    \/ DExcept(p)
    \/ DFinish(p)

NextMatch == Match \/ Meeting

\* requests are served by concurrent threads (app.run, lines 816-820)
NextTrends ==
    \/ \E p \in Threads : \E req \in FewTrendRequests :
          TCall(p, req, FALSE) /\ UNCHANGED <<m_vars, d_vars>>
    \/ \E p \in Threads : TrendsSteps(p) /\ UNCHANGED <<m_vars, d_vars>>
    \/ Tick /\ UNCHANGED <<m_vars, d_vars>>

\* calls that do not overlap: a call starts when no other call is running
NextTrendsSeq ==
    \/ \E p \in Threads : \E req \in TrendRequests :
          NoTrendsCall /\ TCall(p, req, TRUE) /\ UNCHANGED <<m_vars, d_vars>>
    \/ \E p \in Threads : TrendsSteps(p) /\ UNCHANGED <<m_vars, d_vars>>
    \/ Tick /\ UNCHANGED <<m_vars, d_vars>>

\* concurrent requests whose keys may coincide, served within the hour
NextTrendsKeys ==
    \/ \E p \in Threads : \E req \in KeyRequests :
          TCall(p, req, FALSE) /\ UNCHANGED <<m_vars, d_vars>>
    \/ \E p \in Threads : TrendsSteps(p) /\ UNCHANGED <<m_vars, d_vars>>

NextDeal ==
    \/ \E p \in Threads : \E deal \in FewDeals :
          DCall(p, deal) /\ UNCHANGED <<m_vars, t_vars>>
    \/ \E p \in Threads : DealSteps(p) /\ UNCHANGED <<m_vars, t_vars>>
    \/ \E p \in Threads : DPredictRaises(p) /\ UNCHANGED <<m_vars, t_vars>>

NextDealSeq ==
    \/ \E p \in Threads : \E deal \in Deals \cup MalformedDeals :
          NoDealCall /\ DCall(p, deal) /\ UNCHANGED <<m_vars, t_vars>>
    \/ \E p \in Threads : DealSteps(p) /\ UNCHANGED <<m_vars, t_vars>>

Init ==
    \/ InitMatch \/ InitTrends \/ InitDeal \/ InitOpportunities
    \/ InitMatchRoute \/ InitHelpers
Next ==
    \/ NextMatch \/ NextTrends \/ NextDeal \/ Opportunities \/ MatchRoute
    \/ NextHelpers

Spec == Init /\ [][Next]_vars
SpecMatch == InitMatch /\ [][NextMatch]_vars
SpecTrends == InitTrends /\ [][NextTrends]_vars
SpecTrendsSeq == InitTrends /\ [][NextTrendsSeq]_vars
SpecDeal == InitDeal /\ [][NextDeal]_vars
SpecDealSeq == InitDeal /\ [][NextDealSeq]_vars
SpecMatchWide == InitMatchWide /\ [][Match]_vars
SpecOpportunities == InitOpportunities /\ [][Opportunities]_vars
SpecTrendsKeys == InitTrends /\ [][NextTrendsKeys]_vars
SpecHelpers == InitHelpers /\ [][NextHelpers]_vars
SpecMatchRange == InitMatchRange /\ [][Match]_vars
SpecMatchRoute == InitMatchRoute /\ [][MatchRoute]_vars
SpecScores == (InitMatch \/ InitDeal) /\ [][NextMatch \/ NextDealSeq]_vars

-----------------------------------------------------------------------------
(* Properties of the scores *)

\* the profile has all five matching fields
FullyPopulated(u) ==
    {"industry", "title", "bio", "networkValue", "location"} \subseteq DOMAIN u

ValidPair == ValidProfile(user1) /\ ValidProfile(user2)

\* the score the documentation defines for two valid profiles: the weighted
\* sum of the five sub-scores of the defaulted field pairs, clamped
DocumentedScore(u1, u2) ==
    FClamp(WeightedScore(
              calculate_industry_compatibility(Get(u1, "industry", Str(<<>>)),
                                               Get(u2, "industry", Str(<<>>))).v,
              calculate_title_synergy(Get(u1, "title", Str(<<>>)),
                                      Get(u2, "title", Str(<<>>))).v,
              calculate_bio_similarity(Get(u1, "bio", Str(<<>>)),
                                       Get(u2, "bio", Str(<<>>))).v,
              calculate_network_value_compatibility(
                  Get(u1, "networkValue", Num(0)),
                  Get(u2, "networkValue", Num(0))).v,
              calculate_location_proximity(Get(u1, "location", Str(<<>>)),
                                           Get(u2, "location", Str(<<>>))).v),
           Whole(0), Whole(100000))

\* C1: for valid profiles (and any optional context) calculate_match_score
\* and predict_meeting_success return a value in [0,100], and
\* predict_deal_success returns a success_probability in [0,100] whatever
\* the estimator outputs.
C1_ScoresInRange ==
    /\ (m_pc = "matched" /\ ValidPair)
          => /\ m_result.ok
             /\ FLeq(Whole(0), m_result.v) /\ FLeq(m_result.v, Whole(100000))
    /\ (m_pc = "predicted" /\ ValidPair /\ ValidContext(context))
          => /\ m_result.ok
             /\ FLeq(Whole(0), m_result.v) /\ FLeq(m_result.v, Whole(1000000))
    /\ \A p \in Threads :
          d_pc[p] = "done"
            => /\ 0 <= d_ret[p].success_probability
               /\ d_ret[p].success_probability <= 100000

\* a deal call has returned after the estimator answered above 1
C1_Witness ==
    \E p \in Threads :
        /\ d_pc[p] = "done"
        /\ d_estimate[p] > 1000
        /\ d_ret[p].confidence = 820
        /\ d_ret[p].success_probability = 100000

\* C2: for valid profiles calculate_match_score returns the clamped weighted
\* sum of the five sub-scores, for every combination of zero and non-zero
\* networkValue (the network sub-score being 0.3 when either value is zero).
C2_WeightedSum ==
    (m_pc = "matched" /\ ValidPair)
        => m_result = Ok(DocumentedScore(user1, user2))


\* a step of the try block of calculate_match_score raises
FeaturesRaise(u1, u2) == ~extract_matching_features(u1, u2).ok
HelperRaises(u1, u2) ==
    \/ ~calculate_industry_compatibility(Get(u1, "industry", Str(<<>>)),
                                         Get(u2, "industry", Str(<<>>))).ok
    \/ ~calculate_title_synergy(Get(u1, "title", Str(<<>>)),
                                Get(u2, "title", Str(<<>>))).ok
    \/ ~calculate_bio_similarity(Get(u1, "bio", Str(<<>>)),
                                 Get(u2, "bio", Str(<<>>))).ok
    \/ ~calculate_network_value_compatibility(
            Get(u1, "networkValue", Num(0)), Get(u2, "networkValue", Num(0))).ok
    \/ ~calculate_location_proximity(Get(u1, "location", Str(<<>>)),
                                     Get(u2, "location", Str(<<>>))).ok

\* C8: calculate_match_score never propagates an exception; whenever the
\* feature extraction or a sub-score helper raises, for any input, it
\* returns exactly 0.0.
C8_NeverPropagates ==
    m_pc = "matched"
        => /\ m_result.ok
           /\ (FeaturesRaise(user1, user2) \/ HelperRaises(user1, user2))
                 => m_result = Ok(Whole(0))

\* a call has returned in which the feature extraction succeeded and the
\* location helper raised
C8_Witness ==
    /\ m_pc = "matched"
    /\ ~FeaturesRaise(user1, user2)
    /\ ~calculate_location_proximity(Get(user1, "location", Str(<<>>)),
                                     Get(user2, "location", Str(<<>>))).ok
    /\ m_result = Ok(Whole(0))

\* C9: a valid profile with any subset of its fields absent, paired in
\* either position with a fully populated valid profile, gets the weighted
\* score computed from the per-field defaults, not the 0.0 error default.
C9_DefaultsScored ==
    (/\ m_pc = "matched"
     /\ ValidPair
     /\ FullyPopulated(user1) \/ FullyPopulated(user2))
        => /\ m_result.ok
           /\ FLess(Whole(0), m_result.v)
           /\ m_result.v = DocumentedScore(user1, user2)

\* the context score the documentation gives: 0.7 without a context, and
\* for a context with its three fields the base 0.5 plus the bonuses
DocumentedContextScore(ctx) ==
    IF ctx.kind = "none" THEN 700
    ELSE Min(1000,
             500 + (IF ctx.d.type \in {Str(s_business), Str(s_networking)}
                      THEN 200 ELSE 0)
                 + (IF ctx.d.location \in {Str(s_office), Str(s_conference),
                                           Str(s_coffee_shop)}
                      THEN 150 ELSE 0)
                 + (IF ctx.d.timing = Str(s_business_hours) THEN 150 ELSE 0))

ReputationOr50(u) == IF "reputation" \in DOMAIN u THEN u.reputation.n ELSE 50

\* the context is absent or gives all three fields
PlainContext(ctx) ==
    \/ ctx.kind = "none"
    \/ ctx.kind = "dict" /\ DOMAIN ctx.d = {"type", "location", "timing"}

\* C10: for valid profiles predict_meeting_success returns
\* clamp[0,100](100 * (0.40 match_score/100 + 0.25 ctx
\*                     + 0.20 (reputationA + reputationB)/200 + 0.15 * 0.65)),
\* an absent reputation counting as 50, ctx being 0.7 without a context and
\* min(1, 0.5 + bonuses) for a context that gives all three fields.
\* (In ten-thousandths of a point: 4000 per point of match score, 250 per
\* thousandth of ctx, 1000 per reputation point, and 97500.)
C10_MeetingFormula ==
    (m_pc = "predicted" /\ ValidPair /\ PlainContext(context))
        => m_result =
             Ok(FClamp(FAdd(FMul(4, calculate_match_score(user1, user2).v),
                            Whole(250 * DocumentedContextScore(context)
                                  + 1000 * (ReputationOr50(user1)
                                            + ReputationOr50(user2))
                                  + 97500)),
                       Whole(0), Whole(1000000)))

\* a meeting was predicted for a networking context with all three fields,
\* one reputation given and one absent
C10_Witness ==
    /\ m_pc = "predicted"
    /\ ValidPair
    /\ context.kind = "dict"
    /\ DOMAIN context.d = {"type", "location", "timing"}
    /\ context.d.type = Str(s_networking)
    /\ context.d.location = Str(s_other)
    /\ "reputation" \in DOMAIN user1
    /\ "reputation" \notin DOMAIN user2
    /\ FLess(Whole(500000), m_result.v)


-----------------------------------------------------------------------------
(* Properties of the market intelligence cache *)

\* thread p has returned from a call that found, when it was called, an
\* entry under its key whose age satisfies the condition
FoundEntry(p) ==
    /\ t_pc[p] = "done"
    /\ t_key[p] \in DOMAIN t_snap[p].cache
EntryFound(p) == t_snap[p].cache[t_key[p]]

\* C3: if a bundle was stored at time t, a later call with the same
\* (industry, location) made at a time now with now - t < 6 hours returns
\* that stored bundle, identical in every field, computes nothing and
\* leaves the cache unchanged.
C3_ServedFromCache ==
    \A p \in Threads :
        (FoundEntry(p) /\ t_now[p] - EntryFound(p).timestamp < 6)
            => /\ t_ret[p] = EntryFound(p).data
               /\ t_ret[p].lastUpdated = EntryFound(p).timestamp
               /\ trends_cache = t_snap[p].cache
               /\ computed = t_snap[p].computed

\* a call made three hours after the bundle was stored has returned
C3_Witness ==
    \E p \in Threads :
        /\ FoundEntry(p)
        /\ t_now[p] - EntryFound(p).timestamp = 3
        /\ t_ret[p] = EntryFound(p).data

\* C4: an entry is served only while now - timestamp < 6 hours; a call made
\* when now - timestamp >= 6 hours (exactly 6 included) does not return the
\* stored bundle: it computes a fresh bundle stamped with now, overwrites
\* the entry under the same key with it and returns it.
C4_ExpiredRecomputed ==
    \A p \in Threads :
        (FoundEntry(p) /\ t_now[p] - EntryFound(p).timestamp >= 6)
            => /\ t_ret[p] # EntryFound(p).data
               /\ t_ret[p].lastUpdated = t_now[p]
               /\ t_ret[p].confidence \in { 850 + j : j \in Jitters }
               /\ computed = t_snap[p].computed + 1
               /\ trends_cache =
                    (t_key[p] :> [data |-> t_ret[p], timestamp |-> t_now[p]])
                      @@ t_snap[p].cache

\* a call made exactly six hours after the bundle was stored has returned
C4_Witness ==
    \E p \in Threads :
        /\ FoundEntry(p)
        /\ t_now[p] - EntryFound(p).timestamp = 6
        /\ trends_cache[t_key[p]].timestamp = t_now[p]

\* thread p is between its cache check and its store, for a valid industry
Recomputing(p) ==
    /\ t_pc[p] \in {"compute", "store"}
    /\ IsStr(t_req[p].industry)

\* C5: concurrent calls for the same key that is missing or expired are
\* serialized: one fresh bundle is computed and stored, and all of them
\* return that bundle.
C5_Serialized ==
    \A p, q \in Threads :
        (p # q /\ t_pc[p] # "off" /\ t_key[p] = t_key[q])
            => /\ ~(Recomputing(p) /\ Recomputing(q))
               /\ (/\ t_pc[p] = "done" /\ t_pc[q] = "done"
                   /\ IsStr(t_req[p].industry)
                   /\ t_now[p] = t_now[q])
                     => t_ret[p] = t_ret[q]

-----------------------------------------------------------------------------
(* Properties of the deal predictor *)

\* C6: when several first calls run concurrently, _train_model is executed
\* exactly once in total and no call invokes model.predict before that
\* training has completed.
C6_TrainedOnceGuarded ==
    /\ trainings <= 1
    /\ \A p \in Threads : ~d_raced[p]

\* the first call has returned
FirstCallReturned ==
    /\ d_calls >= 1
    /\ \A p \in Threads : d_no[p] = 1 => d_pc[p] = "done"

\* C7 as stated: over non-overlapping calls, whatever the deal records, the
\* estimator is trained exactly once, during the first invocation, and
\* every result with confidence 0.82 comes from the trained estimator.
C7_TrainedInFirstCall ==
    /\ FirstCallReturned => (trainings = 1 /\ d_trained_in = 1 /\ is_trained)
    /\ \A p \in Threads :
          (d_pc[p] = "done" /\ d_ret[p].confidence = 820) => is_trained

C7_State ==
    /\ trainings <= 1
    /\ is_trained => trainings = 1
    /\ trainings = 1 => d_trained_in = d_first_ok /\ d_first_ok >= 1
    /\ \A p \in Threads :
          /\ (d_pc[p] = "done" /\ d_ret[p].confidence = 820)
                => is_trained /\ fitting = 0 /\ d_trained_in <= d_no[p]
          /\ (d_pc[p] = "done" /\ ~extract_deal_features(d_deal[p]).ok)
                => d_ret[p] = DealDefault /\ d_trained_in # d_no[p]
          /\ (d_pc[p] = "done" /\ extract_deal_features(d_deal[p]).ok)
                => d_ret[p].confidence = 820

\* C7, amended: over non-overlapping calls the estimator is trained at most
\* once, during the first invocation whose feature extraction succeeds (an
\* invocation that fails in the feature extraction trains nothing);
\* is_trained never goes from true back to false, no later call retrains,
\* and every result with confidence 0.82 comes from the trained estimator.
C7_TrainedOnceLazily ==
    /\ []C7_State
    /\ [][(is_trained => is_trained') /\
          (trainings' # trainings => ~is_trained /\ trainings = 0)]_vars

\* the first call failed in the feature extraction, the second trained the
\* estimator and the third used it
C7_Witness ==
    \E p \in Threads :
        /\ d_pc[p] = "done"
        /\ d_no[p] = 3
        /\ d_ret[p].confidence = 820
        /\ d_trained_in = 2
        /\ trainings = 1


-----------------------------------------------------------------------------
(* Error handling of the meeting prediction *)

\* a computation of predict_meeting_success fails: the match score it
\* reuses, the context score, or the reputation average
MatchScoreFails(u1, u2) == ~match_score_try(u1, u2).ok
ContextScoreFails(ctx) == ContextTruthy(ctx) /\ ~analyze_meeting_context(ctx).ok
ReputationFails(u1, u2) ==
    \/ ~IsNum(Get(u1, "reputation", Num(50)))
    \/ ~IsNum(Get(u2, "reputation", Num(50)))

\* C11: if any computation of a predict_meeting_success call fails (in the
\* match score it reuses, in the context score or in the reputation
\* average) the call returns exactly 50.0 and propagates nothing.
C11_FailureGivesDefault ==
    (/\ m_pc = "predicted"
     /\ \/ MatchScoreFails(user1, user2)
        \/ ContextScoreFails(context)
        \/ ReputationFails(user1, user2))
        => m_result = Ok(Whole(500000))

-----------------------------------------------------------------------------
(* Error handling of the market intelligence *)

\* the call of thread p has returned after it failed internally: it found
\* no entry to serve and building the bundle raised
TrendsCallFailed(p) ==
    /\ t_pc[p] = "done"
    /\ t_snap[p] # Unset
    /\ ~CacheValid(t_snap[p].cache, t_key[p], t_now[p])
    /\ ~FreshTrends(t_req[p].industry, t_now[p], 0).ok

\* C12: whenever analyze_market_trends fails internally it returns the fixed
\* default bundle (confidence 0.3) and leaves the cache as it was before
\* the call; in every reachable state no cache entry holds the default
\* bundle.
C12_DefaultNotCached ==
    /\ \A p \in Threads :
          TrendsCallFailed(p)
            => /\ t_ret[p] = get_default_trends
               /\ t_ret[p].confidence = 300
               /\ trends_cache = t_snap[p].cache
               /\ computed = t_snap[p].computed
    /\ \A k \in DOMAIN trends_cache :
          trends_cache[k].data # get_default_trends

\* a call has failed and returned while the cache held an entry
C12_Witness ==
    \E p \in Threads :
        /\ TrendsCallFailed(p)
        /\ t_snap[p].cache # <<>>
        /\ t_ret[p] = get_default_trends

-----------------------------------------------------------------------------
(* Error handling of the deal predictor *)

\* thread p is in a call whose feature extraction raised
ExtractionFailed(p) ==
    /\ d_pc[p] \notin {"off", "idle"}
    /\ ~extract_deal_features(d_deal[p]).ok

C13_State ==
    \A p \in Threads :
        /\ ExtractionFailed(p) => d_pc[p] \in {"except", "done"}
        /\ (ExtractionFailed(p) /\ d_pc[p] = "done") => d_ret[p] = DealDefault

\* the step by which a failed call of thread p returns
ReturnsFromFailure(p) == d_pc[p] = "except" /\ d_pc'[p] # "except"
\* the step by which a call of thread p fails in the feature extraction
FailsInExtraction(p) == d_pc[p] = "idle" /\ d_pc'[p] = "except"

\* C13: whenever predict_deal_success fails at any step it returns exactly
\* success_probability 50.0, confidence 0.3, empty key_factors and empty
\* recommendations and propagates nothing; a failure before the training
\* step leaves the trained flag unchanged.
C13_FailureGivesDefault ==
    /\ []C13_State
    /\ [][\A p \in Threads :
            /\ ReturnsFromFailure(p)
                 => /\ d_pc'[p] = "done"
                    /\ d_ret'[p] = [success_probability |-> 50000,
                                    confidence |-> 300,
                                    key_factors |-> <<>>,
                                    recommendations |-> <<>>]
                    /\ is_trained' = is_trained
            /\ FailsInExtraction(p) => is_trained' = is_trained]_vars

\* a call made after the training failed in the feature extraction and
\* returned the default, the flag still set
C13_Witness ==
    \E p \in Threads :
        /\ ExtractionFailed(p)
        /\ d_pc[p] = "done"
        /\ d_ret[p] = DealDefault
        /\ is_trained

-----------------------------------------------------------------------------
(* Properties of the opportunities *)

OpportunityTypes(ops) == { ops[i].type : i \in 1..Len(ops) }

\* C14: for every profile predict_business_opportunities returns at most 5
\* opportunities in non-increasing order of confidence, with the two
\* technology opportunities iff the industry text contains 'technology'
\* (case-insensitive) and the investment opportunity iff networkValue >
\* 10000 (exactly 10000 does not qualify); industry 'technology' with
\* networkValue 50000 gives exactly 3 opportunities.
C14_Opportunities ==
    (m_pc = "listed" /\ ValidProfile(user1))
        => LET ops == m_result.v
               industry == Get(user1, "industry", Str(<<>>)).s
               network_value == Get(user1, "networkValue", Num(0)).n
               has_technology == Contains(Lower(industry), s_technology)
           IN  /\ m_result.ok
               /\ Len(ops) <= 5
               /\ \A i \in 1..(Len(ops) - 1) :
                     ops[i].confidence >= ops[i + 1].confidence
               /\ has_technology
                    => {"partnership", "market_expansion"}
                          \subseteq OpportunityTypes(ops)
               /\ ~has_technology
                    => {"partnership", "market_expansion"}
                          \cap OpportunityTypes(ops) = {}
               /\ "investment" \in OpportunityTypes(ops)
                    <=> network_value > 10000
               /\ (industry = s_technology /\ network_value = 50000)
                    => Len(ops) = 3

\* the technology profile with networkValue 50000 got its three
\* opportunities, the most confident first
C14_Witness ==
    /\ m_pc = "listed"
    /\ "industry" \in DOMAIN user1 /\ user1.industry = Str(s_technology)
    /\ "networkValue" \in DOMAIN user1 /\ user1.networkValue = Num(50000)
    /\ Len(m_result.v) = 3
    /\ m_result.v[1].type = "market_expansion"
    /\ m_result.v[3].type = "investment"

-----------------------------------------------------------------------------
(* Properties of the deal result *)

\* the call of thread p has returned a prediction
DealSucceeded(p) == d_pc[p] = "done" /\ d_ret[p].confidence = 820

\* the normalized values of the deal record (value / 1000000,
\* match_score / 100, duration_months / 12, length / 1000), in units of
\* 1/3000000
NormalizedValue(deal) == Get(deal, "value", Num(10000)).n * 3
NormalizedMatch(deal) == Get(deal, "match_score", Num(50)).n * 30000
NormalizedDuration(deal) == Get(deal, "duration_months", Num(6)).n * 250000
NormalizedLength(deal) == Len(Get(deal, "description", Str(<<>>)).s) * 3000

\* the factor reported for a normalized value
DocumentedFactor(name, importance, value) ==
    [factor |-> name, importance |-> importance, current_value |-> value,
     impact |-> IF 2 * value > 3000000 THEN "positive" ELSE "negative"]

\* C15: on every successful predict_deal_success call key_factors holds
\* exactly the features whose importance exceeds 0.15 (Partner
\* Compatibility 0.4, Deal Value 0.2, Timeline 0.2), by importance
\* descending with Partner Compatibility first, each with the deal's
\* normalized value and impact 'positive' exactly when the value is > 0.5.
C15_KeyFactors ==
    \A p \in Threads :
        DealSucceeded(p)
            => LET kf == d_ret[p].key_factors IN
               /\ Len(kf) = 3
               /\ kf[1] = DocumentedFactor("Partner Compatibility", 400,
                                           NormalizedMatch(d_deal[p]))
               /\ {kf[2], kf[3]} =
                    { DocumentedFactor("Deal Value", 200,
                                       NormalizedValue(d_deal[p])),
                      DocumentedFactor("Timeline", 200,
                                       NormalizedDuration(d_deal[p])) }
               /\ \A i \in 1..2 : kf[i].importance >= kf[i + 1].importance

\* a deal without match_score (default 50, normalized exactly 0.5) and with
\* a seven-month timeline got its factors
C15_Witness ==
    \E p \in Threads :
        /\ DealSucceeded(p)
        /\ "match_score" \notin DOMAIN d_deal[p]
        /\ d_ret[p].key_factors[1].current_value = 1500000
        /\ Get(d_deal[p], "duration_months", Num(6)) = Num(7)
        /\ d_ret[p].key_factors[1].impact = "negative"
        /\ \E i \in 2..3 :
              /\ d_ret[p].key_factors[i].factor = "Timeline"
              /\ d_ret[p].key_factors[i].impact = "positive"


\* the four recommendations, in the order of their tests
r_alignment ==
    "Consider improving partner alignment through preliminary meetings"
r_documentation == "Provide more detailed deal documentation to build trust"
r_risk == "Consider risk mitigation strategies or deal restructuring"
r_milestones == "Implement milestone-based payment structure for large deals"

OnlyIf(cond, r) == IF cond THEN <<r>> ELSE <<>>

\* C16: on every successful predict_deal_success call each of the four
\* recommendations appears iff its own trigger holds (match_score/100 <
\* 0.6, description length/1000 < 0.3, clamped estimate < 0.5,
\* value/1,000,000 > 0.8), in that fixed order; the risk-mitigation
\* recommendation is absent whenever the returned success_probability is
\* >= 50.
C16_Recommendations ==
    \A p \in Threads :
        DealSucceeded(p)
            => LET recs == d_ret[p].recommendations
                   clamped == Max(0, Min(1000, d_estimate[p]))
               IN  /\ recs =
                        OnlyIf(10 * NormalizedMatch(d_deal[p]) < 6 * 3000000,
                               r_alignment) \o
                        OnlyIf(10 * NormalizedLength(d_deal[p]) < 3 * 3000000,
                               r_documentation) \o
                        OnlyIf(clamped < 500, r_risk) \o
                        OnlyIf(10 * NormalizedValue(d_deal[p]) > 8 * 3000000,
                               r_milestones)
                   /\ d_ret[p].success_probability >= 50000
                        => \A i \in 1..Len(recs) : recs[i] # r_risk

\* a call returned exactly 50.0 for a long description with match_score 60
\* and value 800001: only the milestone recommendation
C16_Witness ==
    \E p \in Threads :
        /\ DealSucceeded(p)
        /\ Get(d_deal[p], "value", None) = Num(800001)
        /\ d_estimate[p] = 500
        /\ d_ret[p].success_probability = 50000
        /\ d_ret[p].recommendations = <<r_milestones>>

-----------------------------------------------------------------------------
(* Relations between match scores *)

\* C17: compatibility scoring is symmetric: for every pair of valid
\* profiles A and B, calculate_match_score(A, B) equals
\* calculate_match_score(B, A).
C17_Symmetric ==
    (m_pc = "matched" /\ ValidPair)
        => m_result = calculate_match_score(user2, user1)


\* user2 is user1 with another industry (another also when case is ignored)
SameButIndustry ==
    /\ "industry" \in DOMAIN user1
    /\ "industry" \in DOMAIN user2
    /\ Lower(user1.industry.s) # Lower(user2.industry.s)
    /\ user2 = [user1 EXCEPT !.industry = user2.industry]

\* C18: users in the same industry get a higher score: for every industry X
\* and every different industry Y, all other fields equal, the score of an
\* X-X pair is strictly greater than the score of an X-Y pair.
C18_SameIndustryHigher ==
    (m_pc = "matched" /\ ValidPair /\ SameButIndustry)
        => FLess(m_result.v, calculate_match_score(user1, user1).v)


-----------------------------------------------------------------------------
(* The labels of the /match route *)

\* the score of the two profiles of the body served
RouteScore ==
    calculate_match_score(Get(user1.v, "user1", <<>>),
                          Get(user1.v, "user2", <<>>)).v

RouteAnswered == m_pc = "responded" /\ m_result.status = 200

\* the documented band of a score (the float the route holds)
DocumentedLabel(score) ==
    CHOOSE l \in {"Excellent", "Very Good", "Good", "Fair", "Poor"} :
        /\ l = "Excellent" <=> AtLeast(score, 80000)
        /\ l = "Very Good" <=> (AtLeast(score, 70000) /\ ~AtLeast(score, 80000))
        /\ l = "Good" <=> (AtLeast(score, 60000) /\ ~AtLeast(score, 70000))
        /\ l = "Fair" <=> (AtLeast(score, 40000) /\ ~AtLeast(score, 60000))
        /\ l = "Poor" <=> ~AtLeast(score, 40000)

\* C19: the label answered by /match is a total function of the score with
\* the bands score >= 80 'Excellent', 70 <= score < 80 'Very Good',
\* 60 <= score < 70 'Good', 40 <= score < 60 'Fair', score < 40 'Poor'; it
\* is computed from the unrounded score, and the 0.0 error default is
\* labelled 'Poor'.
C19_LabelBands ==
    RouteAnswered =>
        /\ m_score.v = RouteScore
        /\ m_result.compatibility_level = DocumentedLabel(m_score)
        /\ match_score_try(Get(user1.v, "user1", <<>>),
                           Get(user1.v, "user2", <<>>)).ok = FALSE
             => m_result.compatibility_level = "Poor"

\* a score of 79.995 answered as 80.0 and labelled by the unrounded score
C19_Witness ==
    /\ RouteAnswered
    /\ RouteScore = Whole(79995)
    /\ m_result.match_score = 8000
    /\ m_result.compatibility_level = "Very Good"


-----------------------------------------------------------------------------
(* The keys of the trends cache *)

\* thread p is inside a call of analyze_market_trends
InCall(p) == t_pc[p] \in {"check", "hit", "compute", "store"}

\* C20: cache entries are isolated per (industry, location) pair: two
\* requests whose pairs differ (a location that is absent against any
\* location string, industries or locations that contain the separator)
\* never read the same cache entry and never overwrite each other's entry:
\* the entries they address are different.
C20_EntriesIsolated ==
    \A p, q \in Threads :
        (InCall(p) /\ InCall(q) /\ t_req[p] # t_req[q])
            => t_key[p] # t_key[q]


-----------------------------------------------------------------------------
(* The default of networkValue *)

\* the profile u with networkValue = 0
WithZeroNetwork(u) == ("networkValue" :> Num(0)) @@ u

\* C21: a profile that omits networkValue is scored like the same profile
\* with networkValue = 0, for every partner profile (one whose networkValue
\* is 0 or absent included) and in either argument position.
C21_AbsentNetworkIsZero ==
    (m_pc = "matched" /\ ValidPair) =>
        /\ "networkValue" \notin DOMAIN user1
             => m_result = calculate_match_score(WithZeroNetwork(user1), user2)
        /\ "networkValue" \notin DOMAIN user2
             => m_result = calculate_match_score(user1, WithZeroNetwork(user2))


-----------------------------------------------------------------------------
(* The sub-scores of the matching engine *)

\* a text, possibly empty, or no value
TextOrNone(x) == IsStr(x) \/ x = None

\* the text a, or one of its words, occurs in the text b (case ignored)
OccursIn(a, b) ==
    \/ Contains(Lower(b), Lower(a))
    \/ \E word \in Split(Lower(a)) : Contains(Lower(b), word)

\* the location sub-score as documented, in thousandths
DocumentedProximity(loc1, loc2) ==
    IF ~Truthy(loc1) \/ ~Truthy(loc2) THEN 500
    ELSE IF Lower(loc1.s) = Lower(loc2.s) THEN 1000
    ELSE IF OccursIn(loc1.s, loc2.s) \/ OccursIn(loc2.s, loc1.s) THEN 800
    ELSE 300

\* C22: the location sub-score is 0.5 if either location is empty; otherwise
\* 1.0 if the two are equal ignoring case; otherwise 0.8 if one location (or
\* one of its words) occurs as a substring of the other, whichever of the
\* two arguments is the contained one; otherwise 0.3.
C22_LocationProximity ==
    (m_pc = "located" /\ TextOrNone(user1) /\ TextOrNone(user2))
        => m_result = Ok(DocumentedProximity(user1, user2))


\* the keyword groups of the tiers 5 down to 2
TierKeywords ==
    (5 :> {s_ceo, s_founder, s_president, s_owner}) @@
    (4 :> {s_director, s_vp, s_head}) @@
    (3 :> {s_manager, s_lead, s_principal}) @@
    (2 :> {s_senior, s_sr})

\* the tiers whose group has a keyword that occurs in the title
MatchingTiers(title) ==
    { t \in DOMAIN TierKeywords :
        \E word \in TierKeywords[t] : Contains(Lower(title), word) }

\* the highest matching tier, or 1
DocumentedTier(title) ==
    IF MatchingTiers(title) = {} THEN 1
    ELSE CHOOSE t \in MatchingTiers(title) :
             \A u \in MatchingTiers(title) : u <= t

\* C23: seniority extraction returns a tier in 1..5 for every title, decided
\* by the first keyword group that matches when the groups are checked from
\* tier 5 down to tier 2, case-insensitively: 'CEO' -> 5, 'Director' -> 4,
\* 'Manager' -> 3, 'Senior Engineer' -> 2, 'Engineer' -> 1, and a title that
\* matches several groups gets the highest matching tier.
C23_SeniorityTier ==
    (m_pc = "ranked" /\ IsStr(user1)) =>
        /\ m_result.ok
        /\ m_result.v \in 1..5
        /\ m_result.v = DocumentedTier(user1.s)
        /\ user1.s = s_CEO => m_result.v = 5
        /\ user1.s = s_Director => m_result.v = 4
        /\ user1.s = s_Manager => m_result.v = 3
        /\ user1.s = s_Senior_Engineer => m_result.v = 2
        /\ user1.s = s_Engineer => m_result.v = 1

\* a title that matches the groups of tier 3 and tier 2 is ranked 3
C23_Witness ==
    /\ m_pc = "ranked"
    /\ user1 = Str(s_Senior_Manager)
    /\ MatchingTiers(user1.s) = {2, 3}
    /\ m_result = Ok(3)


\* the pair of industry names has an entry in the affinity table
HasEntry(industry1, industry2) ==
    /\ Lower(industry1) \in DOMAIN compatibility_matrix
    /\ Lower(industry2) \in DOMAIN compatibility_matrix[Lower(industry1)]

\* C24: the industry sub-score is looked up case-insensitively by the
\* ordered pair (first industry, second industry) in the affinity table;
\* every ordered pair with no entry yields 0.5; technology-technology yields
\* 0.9, which is at least the sub-score of every pair without an entry.
C24_IndustryLookup ==
    (m_pc = "compared" /\ IsStr(user1) /\ IsStr(user2)) =>
        /\ m_result.ok
        /\ HasEntry(user1.s, user2.s)
             => m_result.v = compatibility_matrix[Lower(user1.s)][Lower(user2.s)]
        /\ ~HasEntry(user1.s, user2.s) => m_result.v = 500
        /\ (Lower(user1.s) = s_technology /\ Lower(user2.s) = s_technology)
             => m_result.v = 900
        /\ ~HasEntry(user1.s, user2.s)
             => m_result.v <= calculate_industry_compatibility(Str(s_technology), Str(s_technology)).v
        /\ (user1 = Str(s_MARKETING_kelvin) /\ user2 = Str(s_media))
             => m_result.v = 900
        /\ (user1 = Str(s_FINANCE_dotted) \/ user2 = Str(s_FINANCE_dotted))
             => m_result.v = 500

\* a pair written in capitals is found in the table, in one order only
C24_Witness ==
    /\ m_pc = "compared"
    /\ user1 = Str(s_Finance)
    /\ user2 = Str(s_real_estate)
    /\ m_result = Ok(900)
    /\ calculate_industry_compatibility(user2, user1) = Ok(500)
    /\ calculate_industry_compatibility(Str(s_MARKETING_kelvin), Str(s_media)) = Ok(900)

\* the tier of a title
Tier(title) == extract_seniority_level(title).v

\* C25: the title sub-score depends only on the absolute difference of the
\* two seniority tiers: 0.8 when the difference is 1 or 2, 0.6 when the
\* tiers are equal, 0.4 when the difference is 3 or 4; it is the same in
\* both argument orders.
C25_TitleSynergy ==
    (m_pc = "titled" /\ IsStr(user1) /\ IsStr(user2)) =>
        /\ m_result.ok
        /\ Abs(Tier(user1) - Tier(user2)) \in {1, 2} <=> m_result.v = 800
        /\ Tier(user1) = Tier(user2) <=> m_result.v = 600
        /\ Abs(Tier(user1) - Tier(user2)) \in {3, 4} <=> m_result.v = 400
        /\ m_result = calculate_title_synergy(user2, user1)

\* the lower tier first: 'Manager' (3) with 'CEO' (5) scores 0.8
C25_Witness ==
    /\ m_pc = "titled"
    /\ user1 = Str(s_Manager)
    /\ user2 = Str(s_CEO)
    /\ Tier(user1) - Tier(user2) = 0 - 2
    /\ m_result = Ok(800)


-----------------------------------------------------------------------------
(* The fields a meeting context leaves out *)

ContextFields == {"type", "location", "timing"}

\* the context ctx with the field k set to a value no bonus recognises
WithUnrecognized(ctx, k) == DictContext((k :> Str(s_other)) @@ ctx.d)

\* C26: in predict_meeting_success a field that a supplied context leaves
\* out never raises the context score: a non-empty context with a field
\* absent scores the same as that context with the field set to an
\* unrecognized value, an empty context record scores 0.7 like an absent
\* context, and the context score is always in [0.5, 1.0].
C26_AbsentFieldAddsNothing ==
    (m_pc = "predicted" /\ ValidPair /\ context.kind = "dict") =>
        /\ \A k \in ContextFields \ DOMAIN context.d :
              DOMAIN context.d # {}
                  => m_result = predict_meeting_success(user1, user2, WithUnrecognized(context, k))
        /\ DOMAIN context.d = {}
              => m_result = predict_meeting_success(user1, user2, NoContext)
        /\ ContextTruthy(context)
              => /\ analyze_meeting_context(context).v >= 500
                 /\ analyze_meeting_context(context).v <= 1000


-----------------------------------------------------------------------------
(* The range of the match score *)

\* the weighted sum of the five sub-scores before the clamp of line 103, in
\* thousandths of a point
SubScoreSum(u1, u2) ==
    WeightedScore(
        calculate_industry_compatibility(Get(u1, "industry", Str(<<>>)), Get(u2, "industry", Str(<<>>))).v,
        calculate_title_synergy(Get(u1, "title", Str(<<>>)), Get(u2, "title", Str(<<>>))).v,
        calculate_bio_similarity(Get(u1, "bio", Str(<<>>)), Get(u2, "bio", Str(<<>>))).v,
        calculate_network_value_compatibility(Get(u1, "networkValue", Num(0)), Get(u2, "networkValue", Num(0))).v,
        calculate_location_proximity(Get(u1, "location", Str(<<>>)), Get(u2, "location", Str(<<>>))).v)

\* C27: for profiles with valid fields, every value calculate_match_score
\* returns is either the 0.0 error default or lies in [29.5, 93.5]: the clamp
\* to [0, 100] never changes the weighted sum, so a score of 100 and a
\* non-error score below 29.5 are unreachable.
C27_ScoreRange ==
    (m_pc = "matched" /\ ValidPair) =>
        /\ m_result.ok
        /\ \/ m_result.v = Whole(0) /\ ~match_score_try(user1, user2).ok
           \/ /\ FLeq(Whole(29500), m_result.v)
              /\ FLeq(m_result.v, Whole(93500))
              /\ m_result.v = SubScoreSum(user1, user2)

\* the highest score: the best value of every sub-score
C27_Witness ==
    /\ m_pc = "matched"
    /\ ValidPair
    /\ m_result = Ok(Whole(93500))
    /\ SubScoreSum(user1, user2) = Whole(93500)

=============================================================================
